---- MODULE Spec2Model ----
(***************************************************************************)
(* Market-data ETL pipeline: extractor (versioned raw inserts), transformer *)
(* (selection + expression parsing) and loader (upsert into clean table).   *)
(* The relational store is modelled as two tables; a session reads its own   *)
(* pending writes (SQLAlchemy autoflush) and commits once per phase call.    *)
(***************************************************************************)
EXTENDS Integers, Sequences, FiniteSets, TLC

VARIABLES
    raw,     \* raw_data table: sequence of rows, raw_data_id = position
    clean,   \* clean_data table: set of rows
    blobs,   \* blob storage: sequence of written payloads
    clock,   \* last wall-clock reading
    cands,   \* the CleanData objects transform returned / load was called with
    last,    \* what the last completed call was and what it returned
    runs     \* the extract calls under way at once, and the table they started from

vars == <<raw, clean, blobs, clock, cands, last, runs>>

----------------------------------------------------------------------------
(* Bounds of the model *)

MaxRaw == 2        \* rows the raw table may hold
MaxRawExtract == 3 \* the same, where only extract calls run
MaxRawCapped == 4  \* the same, where only the capped modes run
MaxRawFault == 2   \* the same, where steps of extract fail
MaxRawIntegrity == 3 \* the same, where the clock may stand still
MaxRawEmpty == 3      \* the same, where empty answers of the data source are looked at
MaxRawRace == 4       \* the same, where two extract calls run at once
MaxRawStale == 3      \* the same, where two transform-and-load runs run at once
MaxRawHistorical == 4 \* the same, where a key may get a fourth version
MaxRawReject == 3     \* the same, where rows the parser turns down are looked at
MaxRawRepeat == 6     \* the same, where pipeline runs are repeated
MaxRawIds == 2        \* the same, where transform is called with id lists
MaxIdList == 2        \* ids in a list handed to transform there
MaxRawAdjust == 3  \* the same, where the value adjustment is looked at
MaxTokens == 9     \* tokens in the body of an expression handed to the parser
MaxDate == 2       \* dates are days 0..MaxDate since 1970-01-01 (a Thursday)
MaxExprs == 2      \* length of an expression list passed to extract
MaxBatch == 2      \* length of a candidate list passed to load directly
MaxIds == 1        \* number of raw ids passed to transform

(* Program constants *)

VersionLimit == 3      \* extractor.py:145
ApiBase == 80          \* market_data_api.py:58
ApiSpread == 10        \* market_data_api.py:58
CleanValueMin == 1     \* models.py:316
CleanValueMax == 2000  \* models.py:316

----------------------------------------------------------------------------
(* Values.  A value is n * sqrt(252)^r, kept symbolically. *)

Val(n) == [n |-> n, r |-> 0]

\* v > 0 (pydantic gt=0) and CleanValueMin <= v <= CleanValueMax (the CHECK
\* constraint), decided exactly: n * sqrt(252) <= m  iff  252 * n^2 <= m^2.
ValPositive(v) == v.n > 0

ValInCleanRange(v) ==
    IF v.r = 0
    THEN v.n >= CleanValueMin /\ v.n <= CleanValueMax
    ELSE /\ v.n > 0
         /\ 252 * v.n * v.n >= CleanValueMin * CleanValueMin
         /\ 252 * v.n * v.n <= CleanValueMax * CleanValueMax

----------------------------------------------------------------------------
(* Expressions.  A string is kept as: does it start with "DB(", does it end *)
(* with ")", and the comma-separated parts of what lies between.            *)

Expr(parts) == [head |-> TRUE, tail |-> TRUE, parts |-> parts]

E_USDD == Expr(<<"COV", "VOLSWAPTION", "USDD", "10y", "5y", "PAYER", "VOLBPVOL">>)
E_GBP == Expr(<<"COV", "VOLSWAPTION", "GBP", "SONIA", "2y", "1y", "PAYER", "VOLBPVOL">>)
E_USD == Expr(<<"COV", "VOLSWAPTION", "USD", "2y", "1y", "PAYER", "VOLBPVOL">>)
E_JPY == Expr(<<"COV", "VOLSWAPTION", "JPY", "2y", "1y", "PAYER", "VOLBPVOL">>)
E_BAD == [head |-> FALSE, tail |-> TRUE,
          parts |-> <<"COV", "VOLSWAPTION", "EUR", "2y", "1y", "PAYER", "VOLBPVOL">>]

Modes == {"default", "old_codes", "historical"}
CappedModes == {"default", "old_codes"}
Dates == 0..MaxDate

----------------------------------------------------------------------------
(* models.py: APIRequest *)

ValidateExpressionFormat(v) ==
    /\ v.head /\ v.tail
    /\ Len(v.parts) \in {7, 8}
    /\ v.parts[1] = "COV" /\ v.parts[2] = "VOLSWAPTION"

ValidateDateRange(start_date, end_date) == end_date >= start_date

APIRequestValid(expression, start_date, end_date) ==
    /\ ValidateExpressionFormat(expression)
    /\ ValidateDateRange(start_date, end_date)

----------------------------------------------------------------------------
(* market_data_api.py: MarketData.get_historical_data *)

\* Monday = 0; day 0 is 1970-01-01, a Thursday.
Weekday(d) == (d + 3) % 7
IsBusinessDay(d) == Weekday(d) < 5

RECURSIVE BDateRange(_, _)
BDateRange(start_date, end_date) ==
    IF start_date > end_date THEN <<>>
    ELSE (IF IsBusinessDay(start_date) THEN <<start_date>> ELSE <<>>)
         \o BDateRange(start_date + 1, end_date)

MainValues == {Val(ApiBase)}

GetHistoricalData(expression, start_date, end_date, v) ==
    LET dates == BDateRange(start_date, end_date)
    IN [i \in 1..Len(dates) |-> [date |-> dates[i], value |-> v]]

\* create_sample_expressions: the two loops over y and x, each appending one
\* expression per currency code, in that order.
SampleYs == <<"2y", "5y", "10y">>
SampleXs == <<"1y", "5y">>

NewCode(c, y, x) ==
    CASE c = 1 -> Expr(<<"COV", "VOLSWAPTION", "USDD", y, x, "PAYER", "VOLBPVOL">>)
      [] c = 2 -> Expr(<<"COV", "VOLSWAPTION", "EUR", y, x, "PAYER", "VOLBPVOL">>)
      [] c = 3 -> Expr(<<"COV", "VOLSWAPTION", "GBP", "SONIA", y, x, "PAYER", "VOLBPVOL">>)
      [] c = 4 -> Expr(<<"COV", "VOLSWAPTION", "CHF", "SARON", y, x, "PAYER", "VOLBPVOL">>)

OldCode(c, y, x) ==
    CASE c = 1 -> Expr(<<"COV", "VOLSWAPTION", "USD", y, x, "PAYER", "VOLBPVOL">>)
      [] c = 2 -> Expr(<<"COV", "VOLSWAPTION", "GBP", y, x, "PAYER", "VOLBPVOL">>)
      [] c = 3 -> Expr(<<"COV", "VOLSWAPTION", "CHF", y, x, "PAYER", "VOLBPVOL">>)

NewCodes ==
    [k \in 1..(Len(SampleYs) * Len(SampleXs) * 4) |->
        NewCode(((k - 1) % 4) + 1,
                SampleYs[((k - 1) \div (4 * Len(SampleXs))) + 1],
                SampleXs[(((k - 1) \div 4) % Len(SampleXs)) + 1])]

OldCodes ==
    [k \in 1..(Len(SampleYs) * Len(SampleXs) * 3) |->
        OldCode(((k - 1) % 3) + 1,
                SampleYs[((k - 1) \div (3 * Len(SampleXs))) + 1],
                SampleXs[(((k - 1) \div 3) % Len(SampleXs)) + 1])]

CreateSampleExpressions ==
    [new_codes |-> NewCodes, old_codes |-> OldCodes, all_codes |-> NewCodes \o OldCodes]

----------------------------------------------------------------------------
(* extractor.py *)

RowsFor(table, expression, d) ==
    {i \in 1..Len(table) : table[i].expression = expression /\ table[i].date = d}

\* Variant without the cap; a repeated extract then always appends (C10 fails).
ShouldFetchDataAlways(table, expression, start_date, end_date, ingestion_mode) == TRUE

\* Variant with the cap compared by <=; the version cap (C1) fails under it.
ShouldFetchDataInclusive(table, expression, start_date, end_date, ingestion_mode) ==
    IF ingestion_mode = "historical" THEN TRUE
    ELSE Cardinality(RowsFor(table, expression, start_date)) <= VersionLimit

\* Variant that applies the cap in every mode (C32 fails under it).
ShouldFetchDataEveryMode(table, expression, start_date, end_date, ingestion_mode) ==
    Cardinality(RowsFor(table, expression, start_date)) < VersionLimit

ShouldFetchData(table, expression, start_date, end_date, ingestion_mode) ==
    IF ingestion_mode = "historical" THEN TRUE
    ELSE Cardinality(RowsFor(table, expression, start_date)) < VersionLimit

SetMax(S) == CHOOSE x \in S : \A y \in S : y <= x

\* Variant that takes the maximum over every date of the expression; the
\* gap-free numbering per key (C2) fails under it.
NextVersionPerExpression(table, expression, d) ==
    LET vs == {table[i].version : i \in {j \in 1..Len(table) : table[j].expression = expression}}
    IN (IF vs = {} THEN 0 ELSE SetMax(vs)) + 1

\* Variant that numbers every row 1 (C34 fails under it).
NextVersionAlwaysFirst(table, expression, d) == 1

\* select coalesce(max(version), 0) + 1 where expression = .. and date = ..
NextVersion(table, expression, d) ==
    LET vs == {table[i].version : i \in RowsFor(table, expression, d)}
    IN (IF vs = {} THEN 0 ELSE SetMax(vs)) + 1

BlobUri(expression, start_date, end_date, t) ==
    <<expression, start_date, end_date, t>>

StoreBlob(store, df, expression, start_date, end_date, t) ==
    LET other(b) == b.uri # BlobUri(expression, start_date, end_date, t)
    IN Append(SelectSeq(store, other),
              [uri |-> BlobUri(expression, start_date, end_date, t),
               expression |-> expression,
               start_date |-> start_date,
               end_date |-> end_date,
               fetch_timestamp |-> t,
               data |-> df])

RECURSIVE InsertRawData(_, _, _, _, _, _)
InsertRawData(table, df, expression, blob_uri, ingestion_mode, fetch_timestamp) ==
    IF df = <<>> THEN table
    ELSE LET row == Head(df)
             raw_record == [raw_data_id |-> Len(table) + 1,
                            expression |-> expression,
                            date |-> row.date,
                            value |-> row.value,
                            fetch_timestamp |-> fetch_timestamp,
                            version |-> NextVersion(table, expression, row.date),
                            ingestion_mode |-> ingestion_mode,
                            source_file_uri |-> blob_uri]
         IN InsertRawData(Append(table, raw_record), Tail(df), expression,
                          blob_uri, ingestion_mode, fetch_timestamp)

NoExtractMetrics ==
    [expressions_processed |-> 0, rows_fetched |-> 0, rows_inserted |-> 0,
     duplicates_detected |-> 0, errors |-> 0]

\* What the environment does to one extract call besides ticking the clock:
\* nothing, or it makes the step kind fail for the expression at position at
\* of the list: the data source raises ("fetch"), the blob file cannot be
\* written ("blob"), or row number row of the answer does not validate as an
\* APIResponse ("insert"); or the data source answers with an empty frame
\* ("empty").
NoFault == [at |-> 0, kind |-> "none", row |-> 0]
FaultKinds == {"fetch", "blob", "insert"}

\* Variant of the except block that does not count the error (C11 fails).
CountErrorSilent(st) == [st EXCEPT !.outcomes = Append(@, "error")]

\* The except block of the loop: log, count, continue.
CountError(st) ==
    [st EXCEPT !.metrics.errors = @ + 1, !.outcomes = Append(@, "error")]

\* Variant of the empty-result branch that counts the expression as processed
\* (C28 fails under it).
EmptyResultCounted(st) ==
    [st EXCEPT !.outcomes = Append(@, "empty"),
               !.metrics.expressions_processed = @ + 1]

\* "if df.empty: continue": nothing is stored and nothing is counted.
EmptyResult(st) == [st EXCEPT !.outcomes = Append(@, "empty")]

\* The loop of extract_data over the expressions; st is the session's view.
\* tk.blob and tk.row are the clock ticks before the two clock readings,
\* tk.fault the failure the environment injects.  st.calls lists the
\* expressions the data source was called for, st.skipped those
\* _should_fetch_data turned down, st.outcomes how each iteration ended.
\* Rows added before _insert_raw_data fails stay pending in the session.
RECURSIVE ExtractLoop(_, _, _, _, _, _, _)
ExtractLoop(st, expressions, start_date, end_date, ingestion_mode, v, tk) ==
    IF expressions = <<>> THEN st
    ELSE
      LET expression == Head(expressions)
          rest == Tail(expressions)
          fails(kind) == tk.fault.at = Len(st.outcomes) + 1 /\ tk.fault.kind = kind
          df == IF fails("empty") THEN <<>>
                ELSE GetHistoricalData(expression, start_date, end_date, v)
          tBlob == st.clock + tk.blob
          tRow == tBlob + tk.row
          uri == BlobUri(expression, start_date, end_date, tBlob)
          called == [st EXCEPT !.calls = Append(@, expression)]
          stored == [called EXCEPT
                       !.blobs = StoreBlob(@, df, expression, start_date, end_date, tBlob),
                       !.clock = tRow]
          good == IF tk.fault.row \in 1..Len(df) THEN tk.fault.row - 1 ELSE Len(df) - 1
          next ==
            IF ~APIRequestValid(expression, start_date, end_date)
            THEN CountError(st)
            ELSE IF ingestion_mode \notin Modes
            THEN CountError(st)
            ELSE IF ~ShouldFetchData(st.raw, expression, start_date, end_date,
                                     ingestion_mode)
            THEN [st EXCEPT !.skipped = Append(@, expression),
                            !.outcomes = Append(@, "skipped")]
            ELSE IF fails("fetch")
            THEN CountError(called)
            ELSE IF df = <<>>
            THEN EmptyResult(called)
            ELSE IF fails("blob")
            THEN CountError(called)
            ELSE IF fails("insert")
            THEN CountError([stored EXCEPT
                               !.raw = InsertRawData(@, SubSeq(df, 1, good), expression,
                                                     uri, ingestion_mode, tRow)])
            ELSE [stored EXCEPT
                    !.raw = InsertRawData(@, df, expression, uri, ingestion_mode, tRow),
                    !.outcomes = Append(@, "ok"),
                    !.metrics.expressions_processed = @ + 1,
                    !.metrics.rows_fetched = @ + Len(df),
                    !.metrics.rows_inserted = @ + Len(df)]
      IN ExtractLoop(next, rest, start_date, end_date, ingestion_mode, v, tk)

\* Variant without the date-range precondition (C7 fails under it).
ExtractDataUnchecked(table, store, clk, expressions, start_date, end_date, ingestion_mode, v, tk) ==
    ExtractLoop([raw |-> table, blobs |-> store, clock |-> clk,
                 calls |-> <<>>, skipped |-> <<>>, outcomes |-> <<>>,
                 raised |-> FALSE, metrics |-> NoExtractMetrics],
                expressions, start_date, end_date, ingestion_mode, v, tk)

\* Variant that replaces the stored rows by the fetched ones (C16 fails).
ExtractDataReplacing(table, store, clk, expressions, start_date, end_date, ingestion_mode, v, tk) ==
    ExtractLoop([raw |-> <<>>, blobs |-> store, clock |-> clk,
                 calls |-> <<>>, skipped |-> <<>>, outcomes |-> <<>>,
                 raised |-> FALSE, metrics |-> NoExtractMetrics],
                expressions, start_date, end_date, ingestion_mode, v, tk)

\* extract_data: the date-range precondition, then the loop and the commit.
\* Variant that asks for a single day in every mode (C29 fails under it).
ExtractDataSingleDay(table, store, clk, expressions, start_date, end_date, ingestion_mode, v, tk) ==
    LET st0 == [raw |-> table, blobs |-> store, clock |-> clk,
                calls |-> <<>>, skipped |-> <<>>, outcomes |-> <<>>,
                raised |-> FALSE, metrics |-> NoExtractMetrics]
    IN IF start_date # end_date
       THEN [st0 EXCEPT !.raised = TRUE]
       ELSE ExtractLoop(st0, expressions, start_date, end_date, ingestion_mode, v, tk)

ExtractData(table, store, clk, expressions, start_date, end_date, ingestion_mode, v, tk) ==
    LET st0 == [raw |-> table, blobs |-> store, clock |-> clk,
                calls |-> <<>>, skipped |-> <<>>, outcomes |-> <<>>,
                raised |-> FALSE, metrics |-> NoExtractMetrics]
    IN IF ingestion_mode \in CappedModes /\ start_date # end_date
       THEN [st0 EXCEPT !.raised = TRUE]
       ELSE ExtractLoop(st0, expressions, start_date, end_date, ingestion_mode, v, tk)

----------------------------------------------------------------------------
(* transformer.py *)

OptionExpiryEnum == {"1y", "5y"}
SwapTenorEnum == {"2y", "5y", "10y"}
CurrencyEnum == {"USD", "EUR", "GBP", "CHF"}

\* currency_ref_mapping: plain entries and the two nested tables.
\* Variant of the plain entries with the two USD codes exchanged (C22 fails).
CurrencyRefMappingExchanged(currency) ==
    CASE currency = "USD" -> "SOFR"
      [] currency = "USDD" -> "Libor"
      [] currency = "EUR" -> "Euribor"

CurrencyRefMapping(currency) ==
    CASE currency = "USD" -> "Libor"
      [] currency = "USDD" -> "SOFR"
      [] currency = "EUR" -> "Euribor"

NestedRefMapping(currency) ==
    CASE currency = "GBP" -> [k \in {"default", "SONIA"} |->
                                IF k = "default" THEN "Libor" ELSE "SOFR"]
      [] currency = "CHF" -> [k \in {"default", "SARON"} |->
                                IF k = "default" THEN "Libor" ELSE "SARON"]

\* A result is [ok |-> TRUE, value |-> ..] or [ok |-> FALSE, error |-> ..];
\* value "None" stands for Python's None.
Ok(x) == [ok |-> TRUE, value |-> x, error |-> "none"]
Raise(e) == [ok |-> FALSE, value |-> "None", error |-> e]

MapReferenceRate(currency, expression_parts) ==
    IF currency \in {"USD", "USDD", "EUR"}
    THEN Ok(CurrencyRefMapping(currency))
    ELSE IF currency \in {"GBP", "CHF"}
    THEN IF Len(expression_parts) = 8
         THEN IF expression_parts[4] \in DOMAIN NestedRefMapping(currency)
              THEN Ok(NestedRefMapping(currency)[expression_parts[4]])
              ELSE Raise("KeyError")
         ELSE Ok(NestedRefMapping(currency)["default"])
    ELSE Ok("None")

\* Variant that leaves the currency token as it is (C25 fails).
NormalizeCurrencyIdentity(currency) == currency

\* normalized_currency: USDD becomes USD for the clean data.
NormalizeCurrency(currency) == IF currency = "USDD" THEN "USD" ELSE currency

\* Variant that reads the option expiry of the 8-token form from the slot it
\* has in the 7-token form (C19 fails).
XTenorSameSlot(parts) == parts[5]

\* The token read as option expiry (x) and as swap tenor (y): tokens 4 and 3
\* of the 7-token form, 5 and 4 of the 8-token form, counted from 0.
XTenor(parts) == IF Len(parts) = 7 THEN parts[5] ELSE parts[6]
YTenor(parts) == IF Len(parts) = 7 THEN parts[4] ELSE parts[5]

\* Variant that checks the option expiry against the swap tenors (C20 fails).
ValidXTenorAsSwap(x_tenor) == x_tenor \in SwapTenorEnum

ValidXTenor(x_tenor) == x_tenor \in OptionExpiryEnum
ValidYTenor(y_tenor) == y_tenor \in SwapTenorEnum

\* _parse_expression; the value of a successful parse is
\* <<normalized_currency, x_tenor, y_tenor, ref_rate>>.  parts is never empty
\* (split returns at least one token); parts[1] of Python is parts[2] here,
\* and reading it from a one-token body raises IndexError.
ParseExpression(expression) ==
    IF ~expression.head \/ ~expression.tail THEN Raise("ValueError:format")
    ELSE
      LET parts == expression.parts
          n == Len(parts)
      IN IF parts[1] # "COV" THEN Raise("ValueError:format")
         ELSE IF n < 2 THEN Raise("IndexError")
         ELSE IF parts[2] # "VOLSWAPTION" THEN Raise("ValueError:format")
         ELSE IF n \notin {7, 8} THEN Raise("ValueError:parts")
         ELSE
           LET currency == parts[3]
               y_tenor == YTenor(parts)
               x_tenor == XTenor(parts)
               ref_rate == MapReferenceRate(currency, parts)
           IN IF n = 8 /\ currency \in {"GBP", "CHF"}
                       /\ parts[4] \notin {"SONIA", "SARON"}
              THEN Raise("ValueError:indicator")
              ELSE IF ~ValidXTenor(x_tenor) THEN Raise("ValueError:x_tenor")
              ELSE IF ~ValidYTenor(y_tenor) THEN Raise("ValueError:y_tenor")
              ELSE IF ~ref_rate.ok THEN ref_rate
              ELSE IF ref_rate.value = "None" THEN Raise("ValueError:ref_rate")
              ELSE IF "" \in {NormalizeCurrency(currency), x_tenor, y_tenor,
                              ref_rate.value}
              THEN Raise("ValueError:missing")
              ELSE Ok(<<NormalizeCurrency(currency), x_tenor, y_tenor, ref_rate.value>>)

\* Variant that adjusts every SOFR value, whatever the currency (C24 fails).
ApplyValueTransformationsAnySofr(value, currency, ref_rate) ==
    IF ref_rate = "SOFR"
    THEN [value EXCEPT !.r = @ + 1]
    ELSE value

ApplyValueTransformations(value, currency, ref_rate) ==
    IF currency = "USD" /\ ref_rate = "SOFR"
    THEN [value EXCEPT !.r = @ + 1]
    ELSE value

\* CleanData(...): the pydantic field validators of the candidate.
CleanDataValid(c) ==
    /\ c.currency \in CurrencyEnum
    /\ c.x \in OptionExpiryEnum
    /\ c.y \in SwapTenorEnum
    /\ ValPositive(c.value)

\* What transform_raw_data is called with: raw_data_ids omitted (None) or a list.
NoIds == [given |-> FALSE, list |-> <<>>]
Ids(list) == [given |-> TRUE, list |-> list]

Range(f) == {f[i] : i \in DOMAIN f}

\* The NULL right-hand side of the outer join.
NullClean == [clean_data_id |-> 0]

\* The clean_data rows joined to raw row i on (expression, date); the NULL
\* row when there is none (isouter=True).
JoinRows(rawT, cleanT, i) ==
    LET m == {c \in cleanT : c.expression = rawT[i].expression /\ c.date = rawT[i].date}
    IN IF m = {} THEN {NullClean} ELSE m

\* Variant without case 2: only rows without a clean row are selected (C4 fails).
NeedsProcessingUnprocessedOnly(r, c) == c.clean_data_id = 0

\* Variant of case 2 with >= (the selection of C8 fails).
NeedsProcessingInclusive(r, c) ==
    \/ c.clean_data_id = 0
    \/ r.raw_data_id >= c.raw_data_id

\* The where clause of the selection.
NeedsProcessing(r, c) ==
    \/ c.clean_data_id = 0
    \/ r.raw_data_id > c.raw_data_id

RECURSIVE Repeat(_, _)
Repeat(x, n) == IF n = 0 THEN <<>> ELSE <<x>> \o Repeat(x, n - 1)

\* The joined, filtered rows from raw row i on, ordered by raw_data_id.
RECURSIVE SelectUnprocessed(_, _, _)
SelectUnprocessed(rawT, cleanT, i) ==
    IF i > Len(rawT) THEN <<>>
    ELSE Repeat(rawT[i],
                Cardinality({c \in JoinRows(rawT, cleanT, i) :
                               NeedsProcessing(rawT[i], c)}))
         \o SelectUnprocessed(rawT, cleanT, i + 1)

\* Variant that tests "is not None": an empty id list selects nothing.
GetRawDataToProcessIsNotNone(rawT, cleanT, raw_data_ids, order) ==
    IF raw_data_ids.given
    THEN [k \in 1..Len(order) |-> rawT[order[k]]]
    ELSE SelectUnprocessed(rawT, cleanT, 1)

\* _get_raw_data_to_process.  With a non-empty id list the statement has no
\* ORDER BY: order is the row order the store returns, a permutation of the
\* matching ids.
GetRawDataToProcess(rawT, cleanT, raw_data_ids, order) ==
    IF raw_data_ids.given /\ raw_data_ids.list # <<>>
    THEN [k \in 1..Len(order) |-> rawT[order[k]]]
    ELSE SelectUnprocessed(rawT, cleanT, 1)

MatchingIds(rawT, raw_data_ids) ==
    {i \in 1..Len(rawT) : i \in Range(raw_data_ids.list)}

Orders(S) ==
    {o \in [1..Cardinality(S) -> S] : \A a, b \in 1..Cardinality(S) : a # b => o[a] # o[b]}

NoTransformMetrics ==
    [rows_processed |-> 0, rows_transformed |-> 0, rows_rejected |-> 0,
     validation_errors |-> 0]

\* Variant that counts the record as a validation error (C37 fails under it).
RejectedAsValidationError(st) == [st EXCEPT !.metrics.validation_errors = @ + 1]

\* Variant that does not count the record (C13 fails under it).
RejectedUncounted(st) == st

\* The general except clause of the loop: the record is counted as rejected.
Rejected(st) == [st EXCEPT !.metrics.rows_rejected = @ + 1]

RECURSIVE TransformLoop(_, _)
TransformLoop(st, raw_records) ==
    IF raw_records = <<>> THEN st
    ELSE
      LET raw_record == Head(raw_records)
          parsed == ParseExpression(raw_record.expression)
          clean_record ==
            [expression |-> raw_record.expression,
             date |-> raw_record.date,
             currency |-> parsed.value[1],
             x |-> parsed.value[2],
             y |-> parsed.value[3],
             ref |-> parsed.value[4],
             value |-> ApplyValueTransformations(raw_record.value,
                                                 parsed.value[1], parsed.value[4]),
             raw_data_id |-> raw_record.raw_data_id,
             detached |-> FALSE]
          counted == [st EXCEPT !.metrics.rows_processed = @ + 1]
          next ==
            IF ~parsed.ok
            THEN Rejected(counted)
            ELSE IF ~CleanDataValid(clean_record)
            THEN [counted EXCEPT !.metrics.validation_errors = @ + 1]
            ELSE [counted EXCEPT !.clean_records = Append(@, clean_record),
                                 !.metrics.rows_transformed = @ + 1]
      IN TransformLoop(next, Tail(raw_records))

TransformRawData(rawT, cleanT, raw_data_ids, order) ==
    LET raw_records == GetRawDataToProcess(rawT, cleanT, raw_data_ids, order)
        st == TransformLoop([clean_records |-> <<>>, metrics |-> NoTransformMetrics],
                            raw_records)
    IN [clean_records |-> st.clean_records,
        metrics |-> st.metrics,
        selected |-> [k \in 1..Len(raw_records) |-> raw_records[k].raw_data_id]]

----------------------------------------------------------------------------
(* loader.py *)

NextCleanId(view) ==
    (IF view = {} THEN 0 ELSE SetMax({c.clean_data_id : c \in view})) + 1

Existing(view, clean_record) ==
    {e \in view : e.expression = clean_record.expression /\ e.date = clean_record.date}

NewCleanRow(view, clean_record) ==
    [clean_data_id |-> NextCleanId(view),
     expression |-> clean_record.expression,
     date |-> clean_record.date,
     currency |-> clean_record.currency,
     x |-> clean_record.x,
     y |-> clean_record.y,
     ref |-> clean_record.ref,
     value |-> clean_record.value,
     raw_data_id |-> clean_record.raw_data_id]

\* Variant that adds without the lookup (one record per key, C3, fails).
UpsertCleanRecordInsertOnly(view, clean_record) ==
    [view |-> view \cup {NewCleanRow(view, clean_record)}, result |-> "inserted"]

\* Variant whose update leaves reference_rate as it was (C9 fails).
UpsertCleanRecordKeepsRate(view, clean_record) ==
    LET found == Existing(view, clean_record)
        existing_record == CHOOSE e \in found : \A f \in found : e.clean_data_id <= f.clean_data_id
    IN IF found = {}
       THEN [view |-> view \cup {NewCleanRow(view, clean_record)}, result |-> "inserted"]
       ELSE [view |-> (view \ {existing_record}) \cup
                        {[existing_record EXCEPT
                            !.currency = clean_record.currency,
                            !.x = clean_record.x,
                            !.y = clean_record.y,
                            !.value = clean_record.value,
                            !.raw_data_id = clean_record.raw_data_id]},
             result |-> "updated"]

\* Variant of the upsert that leaves a stored row as it is (C33 fails under it).
UpsertCleanRecordKeepsFirst(view, clean_record) ==
    IF Existing(view, clean_record) = {}
    THEN [view |-> view \cup {NewCleanRow(view, clean_record)}, result |-> "inserted"]
    ELSE [view |-> view, result |-> "updated"]

\* Variant of the upsert that keeps the stored row when the candidate's raw
\* row is not newer (C31 fails under it).
UpsertCleanRecordNewerOnly(view, clean_record) ==
    LET found == Existing(view, clean_record)
        existing_record == CHOOSE e \in found : \A f \in found : e.clean_data_id <= f.clean_data_id
    IN IF found = {}
       THEN [view |-> view \cup {NewCleanRow(view, clean_record)},
             result |-> "inserted"]
       ELSE IF clean_record.raw_data_id <= existing_record.raw_data_id
       THEN [view |-> view, result |-> "updated"]
       ELSE [view |-> (view \ {existing_record}) \cup
                        {[existing_record EXCEPT
                            !.currency = clean_record.currency,
                            !.x = clean_record.x,
                            !.y = clean_record.y,
                            !.ref = clean_record.ref,
                            !.value = clean_record.value,
                            !.raw_data_id = clean_record.raw_data_id]},
             result |-> "updated"]

\* _upsert_clean_record on the session's view of clean_data.
UpsertCleanRecord(view, clean_record) ==
    LET found == Existing(view, clean_record)
        existing_record == CHOOSE e \in found : \A f \in found : e.clean_data_id <= f.clean_data_id
    IN IF found = {}
       THEN [view |-> view \cup {NewCleanRow(view, clean_record)},
             result |-> "inserted"]
       ELSE [view |-> (view \ {existing_record}) \cup
                        {[existing_record EXCEPT
                            !.currency = clean_record.currency,
                            !.x = clean_record.x,
                            !.y = clean_record.y,
                            !.ref = clean_record.ref,
                            !.value = clean_record.value,
                            !.raw_data_id = clean_record.raw_data_id]},
             result |-> "updated"]

NoLoadMetrics ==
    [records_processed |-> 0, records_inserted |-> 0, records_updated |-> 0,
     records_failed |-> 0]

\* The loop of load_clean_data.  A candidate is a Python object: one that an
\* earlier session added and committed is expired and detached (field
\* detached), and building the lookup from its attributes raises before any
\* statement runs.  Otherwise the session flushes its pending write before
\* the lookup; a write that breaks the CHECK constraint on value fails that
\* flush, rolls the transaction back and leaves the session unusable (every
\* later statement raises).
RECURSIVE LoadLoop(_, _)
LoadLoop(st, clean_records) ==
    IF clean_records = <<>> THEN st
    ELSE
      LET clean_record == Head(clean_records)
          counted == [st EXCEPT !.metrics.records_processed = @ + 1]
          up == UpsertCleanRecord(st.view, clean_record)
          next ==
            IF clean_record.detached \/ st.broken
            THEN [counted EXCEPT !.metrics.records_failed = @ + 1,
                                 !.results = Append(@, "failed")]
            ELSE IF st.pendingBad
            THEN [counted EXCEPT !.metrics.records_failed = @ + 1,
                                 !.results = Append(@, "failed"),
                                 !.view = st.begin,
                                 !.pendingBad = FALSE,
                                 !.broken = TRUE]
            ELSE [counted EXCEPT
                    !.view = up.view,
                    !.pendingBad = ~ValInCleanRange(clean_record.value),
                    !.results = Append(@, up.result),
                    !.metrics.records_inserted =
                        IF up.result = "inserted" THEN @ + 1 ELSE @,
                    !.metrics.records_updated =
                        IF up.result = "updated" THEN @ + 1 ELSE @]
      IN LoadLoop(next, Tail(clean_records))

\* load_clean_data: the loop, then the single commit, which raises when the
\* session is unusable or its last flush fails.  objects is the caller's list
\* after the call: the commit expires the objects the session added, and
\* closing the session detaches them.
LoadCleanData(cleanT, clean_records) ==
    LET st == LoadLoop([view |-> cleanT, begin |-> cleanT, pendingBad |-> FALSE,
                        broken |-> FALSE, results |-> <<>>,
                        metrics |-> NoLoadMetrics], clean_records)
        raised == st.broken \/ st.pendingBad
    IN [clean |-> IF raised THEN cleanT ELSE st.view,
        raised |-> raised,
        results |-> st.results,
        metrics |-> st.metrics,
        objects |-> [k \in 1..Len(clean_records) |->
                       IF ~raised /\ st.results[k] = "inserted"
                       THEN [clean_records[k] EXCEPT !.detached = TRUE]
                       ELSE clean_records[k]]]

\* validate_clean_data_integrity.  Python's None is the empty sequence, a
\* timestamp t is <<t>>.
NoTimestamp == <<>>

EmptyIntegrityReport ==
    [valid |-> TRUE, issues |-> <<>>, duplicate_combinations |-> 0,
     validation_fetch_timestamp |-> NoTimestamp, records_checked |-> 0]

\* The most recent fetch_timestamp of the raw table (ORDER BY .. DESC LIMIT 1).
LatestFetchTimestamp(rawT) ==
    IF rawT = <<>> THEN NoTimestamp
    ELSE <<SetMax({rawT[i].fetch_timestamp : i \in 1..Len(rawT)})>>

\* Variant of the early return that also marks the report invalid (C15 fails).
NoRawDataReportInvalid(report) ==
    [report EXCEPT !.valid = FALSE, !.issues = Append(@, "No raw data records found")]

\* The early return when the raw table is empty.
NoRawDataReport(report) ==
    [report EXCEPT !.issues = Append(@, "No raw data records found")]

\* Variant of the join without the restriction to the latest fetch (C14 fails).
JoinsLatestAnyFetch(c, r, latest) ==
    c.expression = r.expression /\ c.date = r.date

\* The ON and WHERE conditions of the join of clean_data to raw_data.
JoinsLatest(c, r, latest) ==
    /\ c.expression = r.expression
    /\ c.date = r.date
    /\ r.fetch_timestamp = latest

RECURSIVE SeqOfSet(_)
SeqOfSet(S) ==
    IF S = {} THEN <<>>
    ELSE LET x == CHOOSE y \in S : TRUE IN <<x>> \o SeqOfSet(S \ {x})

\* The rows of the join, one CleanData per matching (clean, raw) pair.
RECURSIVE LatestCleanData(_, _, _, _)
LatestCleanData(rawT, cleanT, latest, i) ==
    IF i > Len(rawT) THEN <<>>
    ELSE SeqOfSet({c \in cleanT : JoinsLatest(c, rawT[i], latest)})
         \o LatestCleanData(rawT, cleanT, latest, i + 1)

\* The loop over the joined rows: a row whose (expression, date) was already
\* seen adds one to duplicates.
RECURSIVE CountDuplicates(_, _, _)
CountDuplicates(records, expressions_seen, duplicates) ==
    IF records = <<>> THEN duplicates
    ELSE LET record == Head(records)
             expression_date_combo == <<record.expression, record.date>>
         IN IF expression_date_combo \in expressions_seen
            THEN CountDuplicates(Tail(records), expressions_seen, duplicates + 1)
            ELSE CountDuplicates(Tail(records),
                                 expressions_seen \cup {expression_date_combo},
                                 duplicates)

ValidateCleanDataIntegrity(rawT, cleanT) ==
    LET latest_fetch_timestamp == LatestFetchTimestamp(rawT)
    IN IF latest_fetch_timestamp = NoTimestamp
       THEN NoRawDataReport(EmptyIntegrityReport)
       ELSE
         LET latest_clean_data ==
                 LatestCleanData(rawT, cleanT, latest_fetch_timestamp[1], 1)
             duplicates == CountDuplicates(latest_clean_data, {}, 0)
             checked == [EmptyIntegrityReport EXCEPT
                           !.validation_fetch_timestamp = latest_fetch_timestamp,
                           !.records_checked = Len(latest_clean_data)]
         IN IF duplicates > 0
            THEN [checked EXCEPT
                    !.valid = FALSE,
                    !.duplicate_combinations = duplicates,
                    !.issues = Append(@, "Found duplicate expression+date combinations")]
            ELSE checked

----------------------------------------------------------------------------
(* The calls, one action per call (single-threaded, one session per call) *)

\* The extract calls that may be under way at once, what each is called
\* with, and a call that has not started.
Runs == {1, 2}
RaceDate == 1
RaceMode == "default"
RaceExpressions == {E_USDD, E_GBP}

Idle == [pc |-> "idle", expression |-> E_USDD, seen |-> 0, version |-> 0,
         uri |-> <<>>, t |-> 0, value |-> Val(ApiBase), raised |-> FALSE,
         clean_records |-> <<>>]

NoRuns(table) == [base |-> table, run |-> [p \in Runs |-> Idle]]

Init ==
    /\ raw = <<>>
    /\ clean = {}
    /\ blobs = <<>>
    /\ clock = 0
    /\ cands = <<>>
    /\ last = [op |-> "init", raised |-> FALSE, out |-> <<>>]
    /\ runs = NoRuns(<<>>)

\* DataExtractor.extract_data(expressions, start_date, end_date, ingestion_mode)
Extract(expressions, start_date, end_date, ingestion_mode, v, tk, maxRows) ==
    LET r == ExtractData(raw, blobs, clock, expressions, start_date, end_date,
                         ingestion_mode, v, tk)
    IN /\ Len(r.raw) <= maxRows
       /\ Len(r.blobs) <= maxRows
       /\ raw' = r.raw
       /\ blobs' = r.blobs
       /\ clock' = r.clock
       /\ last' = [op |-> "extract",
                   raised |-> r.raised,
                   out |-> [metrics |-> r.metrics, calls |-> r.calls,
                            skipped |-> r.skipped, outcomes |-> r.outcomes]]
       /\ UNCHANGED <<clean, cands, runs>>

\* DataTransformer.transform_raw_data(raw_data_ids)
Transform(raw_data_ids, order) ==
    LET r == TransformRawData(raw, clean, raw_data_ids, order)
    IN /\ cands' = r.clean_records
       /\ last' = [op |-> "transform",
                   raised |-> FALSE,
                   out |-> [raw_data_ids |-> raw_data_ids, metrics |-> r.metrics,
                            selected |-> r.selected]]
       /\ UNCHANGED <<raw, clean, blobs, clock, runs>>

\* DataLoader.load_clean_data(clean_records)
LoadRecords(clean_records) ==
    LET r == LoadCleanData(clean, clean_records)
    IN /\ clean' = r.clean
       /\ cands' = r.objects
       /\ last' = [op |-> "load",
                   raised |-> r.raised,
                   out |-> [metrics |-> r.metrics, results |-> r.results]]
       /\ UNCHANGED <<raw, blobs, clock, runs>>

\* DataLoader.validate_clean_data_integrity()
CheckIntegrity ==
    /\ last' = [op |-> "integrity", raised |-> FALSE,
                out |-> ValidateCleanDataIntegrity(raw, clean)]
    /\ UNCHANGED <<raw, clean, blobs, clock, cands, runs>>

\* Variant that answers mode historical with all codes (C26 fails).
GetExpressionsForModeAllHistorical(mode) ==
    LET sample_expressions == CreateSampleExpressions
    IN IF mode = "default" THEN Ok(sample_expressions.new_codes)
       ELSE IF mode \in {"old_codes", "historical"} THEN Ok(sample_expressions.all_codes)
       ELSE Raise("ValueError:mode")

\* DataExtractor.get_expressions_for_mode(mode), as a result.
GetExpressionsForMode(mode) ==
    LET sample_expressions == CreateSampleExpressions
    IN IF mode = "default" THEN Ok(sample_expressions.new_codes)
       ELSE IF mode = "old_codes" THEN Ok(sample_expressions.all_codes)
       ELSE IF mode = "historical" THEN Ok(sample_expressions.old_codes)
       ELSE Raise("ValueError:mode")

\* A call of get_expressions_for_mode
GetExpressions(mode) ==
    LET r == GetExpressionsForMode(mode)
    IN /\ last' = [op |-> "expressions", raised |-> ~r.ok,
                   out |-> [mode |-> mode, result |-> r]]
       /\ UNCHANGED <<raw, clean, blobs, clock, cands, runs>>

\* DataTransformer._parse_expression(expression)
Parse(expression) ==
    LET r == ParseExpression(expression)
    IN /\ last' = [op |-> "parse", raised |-> ~r.ok,
                   out |-> [expression |-> expression, result |-> r]]
       /\ UNCHANGED <<raw, clean, blobs, clock, cands, runs>>

\* Variant of the transform phase that hands every stored id to transform.
RunTransformPhaseAllRows(rawT, cleanT) ==
    TransformRawData(rawT, cleanT, Ids([k \in 1..Len(rawT) |-> k]),
                     [k \in 1..Len(rawT) |-> k])

\* _run_transform_phase: transform_raw_data() without ids.
RunTransformPhase(rawT, cleanT) == TransformRawData(rawT, cleanT, NoIds, <<>>)

\* Variant of the load phase that is handed an empty list (C17 fails).
RunLoadPhaseEmpty(cleanT, clean_records) == LoadCleanData(cleanT, <<>>)

\* _run_load_phase: load_clean_data(clean_records).
RunLoadPhase(cleanT, clean_records) == LoadCleanData(cleanT, clean_records)

\* run_pipeline: the three phases in sequence; the ValueError of extract is
\* caught and reported, any other exception leaves run_pipeline.
RunPipeline(expressions, start_date, end_date, ingestion_mode, v, tk, maxRows) ==
    LET ex == ExtractData(raw, blobs, clock, expressions, start_date, end_date,
                          ingestion_mode, v, tk)
        tr == RunTransformPhase(ex.raw, clean)
        ld == RunLoadPhase(clean, tr.clean_records)
    IN /\ Len(ex.raw) <= maxRows
       /\ Len(ex.blobs) <= maxRows
       /\ raw' = ex.raw
       /\ blobs' = ex.blobs
       /\ clock' = ex.clock
       /\ UNCHANGED runs
       /\ IF ex.raised
          THEN /\ UNCHANGED <<clean, cands>>
               /\ last' = [op |-> "pipeline", raised |-> FALSE,
                           out |-> [success |-> FALSE, phases |-> <<"extract">>]]
          ELSE /\ clean' = ld.clean
               /\ cands' = ld.objects
               /\ last' = [op |-> "pipeline", raised |-> ld.raised,
                           out |-> [success |-> ~ld.raised,
                                    phases |-> <<"extract", "transform", "load">>,
                                    extract_metrics |-> ex.metrics,
                                    transform_metrics |-> tr.metrics,
                                    selected |-> tr.selected,
                                    load_metrics |-> ld.metrics]]

----------------------------------------------------------------------------
(* Two extract_data calls at once on one database and one blob directory.  *)
(* Each call has its own session: its statements read what is committed,   *)
(* and its pending row reaches the table at its commit, where the table's  *)
(* unique constraint is enforced.  One expression and one day per call.    *)

Active == {p \in Runs : runs.run[p].pc \in {"checked", "stored", "added"}}

\* Variant of the constraint that lets every row in (C30 fails under it).
UniqueViolationNever(table, raw_record) == FALSE

\* UniqueConstraint("expression", "date", "version") of raw_data.
UniqueViolation(table, raw_record) ==
    \E i \in 1..Len(table) :
        /\ table[i].expression = raw_record.expression
        /\ table[i].date = raw_record.date
        /\ table[i].version = raw_record.version

\* extract_data up to the answer of _should_fetch_data: the precondition
\* holds (one day), the request is valid, and the call reads the committed
\* rows of its key.
RunCheck(p, expression) ==
    LET fetch == ShouldFetchData(raw, expression, RaceDate, RaceDate, RaceMode)
    IN /\ runs.run[p].pc = "idle"
       /\ fetch => Len(blobs) + Cardinality(Active) < MaxRawRace
       /\ runs' = [runs EXCEPT !.run[p] =
                     [Idle EXCEPT !.pc = IF fetch THEN "checked" ELSE "done",
                                  !.expression = expression,
                                  !.seen = Cardinality(RowsFor(raw, expression, RaceDate))]]
       /\ UNCHANGED <<raw, clean, blobs, clock, cands, last>>

\* get_historical_data and _store_blob.
RunStore(p, v) ==
    LET r == runs.run[p]
        t == clock + 1
        df == GetHistoricalData(r.expression, RaceDate, RaceDate, v)
    IN /\ r.pc = "checked"
       /\ blobs' = StoreBlob(blobs, df, r.expression, RaceDate, RaceDate, t)
       /\ clock' = t
       /\ runs' = [runs EXCEPT !.run[p].pc = "stored",
                               !.run[p].uri = BlobUri(r.expression, RaceDate, RaceDate, t),
                               !.run[p].value = v]
       /\ UNCHANGED <<raw, clean, cands, last>>

\* _insert_raw_data: the clock reading, the version query and session.add.
RunVersion(p) ==
    LET r == runs.run[p]
    IN /\ r.pc = "stored"
       /\ clock' = clock + 1
       /\ runs' = [runs EXCEPT !.run[p].pc = "added",
                               !.run[p].t = clock + 1,
                               !.run[p].version = NextVersion(raw, r.expression, RaceDate)]
       /\ UNCHANGED <<raw, clean, blobs, cands, last>>

\* session.commit(): the pending row is inserted, or the constraint turns it
\* down and the IntegrityError leaves extract_data.
RunCommit(p) ==
    LET r == runs.run[p]
        raw_record == [raw_data_id |-> Len(raw) + 1,
                       expression |-> r.expression,
                       date |-> RaceDate,
                       value |-> r.value,
                       fetch_timestamp |-> r.t,
                       version |-> r.version,
                       ingestion_mode |-> RaceMode,
                       source_file_uri |-> r.uri]
    IN /\ r.pc = "added"
       /\ IF UniqueViolation(raw, raw_record)
          THEN /\ runs' = [runs EXCEPT !.run[p].pc = "done", !.run[p].raised = TRUE]
               /\ UNCHANGED raw
          ELSE /\ runs' = [runs EXCEPT !.run[p].pc = "done"]
               /\ raw' = Append(raw, raw_record)
       /\ UNCHANGED <<clean, blobs, clock, cands, last>>

\* Both calls are over; the next pair of calls starts from what they left.
RunsOver ==
    /\ \A p \in Runs : runs.run[p].pc = "done"
    /\ runs' = NoRuns(raw)
    /\ UNCHANGED <<raw, clean, blobs, clock, cands, last>>

----------------------------------------------------------------------------
(* Two transform-and-load runs at once on one database.  transform_raw_data *)
(* and load_clean_data are two calls with a session each: what transform    *)
(* selected is held by the run until its load, which reads and writes       *)
(* clean_data as it is then and commits once.                               *)

\* transform_raw_data() of run p, raw_data_ids omitted.
RunTransform(p) ==
    LET tr == TransformRawData(raw, clean, NoIds, <<>>)
    IN /\ runs.run[p].pc = "idle"
       /\ runs' = [runs EXCEPT !.run[p].pc = "transformed",
                               !.run[p].clean_records = tr.clean_records]
       /\ UNCHANGED <<raw, clean, blobs, clock, cands, last>>

\* load_clean_data(clean_records) of run p, with what its transform returned.
RunLoad(p) ==
    LET ld == LoadCleanData(clean, runs.run[p].clean_records)
    IN /\ runs.run[p].pc = "transformed"
       /\ clean' = ld.clean
       /\ runs' = [runs EXCEPT !.run[p].pc = "done", !.run[p].raised = ld.raised]
       /\ UNCHANGED <<raw, blobs, clock, cands, last>>

----------------------------------------------------------------------------
(* Inputs *)

SeqsUpTo(S, n) == UNION {[1..k -> S] : k \in 0..n}

StrictTicks == {[blob |-> 1, row |-> 1, fault |-> NoFault]}
IdLists == {NoIds} \cup {Ids(l) : l \in SeqsUpTo(1..MaxRaw, MaxIds)}
IdOrders(raw_data_ids) ==
    IF raw_data_ids.given /\ raw_data_ids.list # <<>>
    THEN Orders(MatchingIds(raw, raw_data_ids)) ELSE {<<>>}

\* Every extract call over the given inputs, the raw table and the blob store
\* kept within maxRows.
ExtractOver(lists, ranges, modes, values, maxRows) ==
    \E expressions \in lists, range \in ranges, ingestion_mode \in modes,
       v \in values, tk \in StrictTicks :
        Extract(expressions, range[1], range[2], ingestion_mode, v, tk, maxRows)

AllRanges == Dates \X Dates

----------------------------------------------------------------------------
(* Spec: extract, transform, load and whole pipeline runs on one business   *)
(* day (Friday 1970-01-02); the range <<2, 1>> is the invalid one.          *)

MainLists == {<<E_USDD>>, <<E_JPY>>, <<E_BAD>>}
MainRanges == {<<1, 1>>, <<2, 1>>}
MainModes == {"default", "historical"}

ExtractAny == ExtractOver(MainLists, MainRanges, MainModes, MainValues, MaxRaw)

TransformAny ==
    \E raw_data_ids \in IdLists : \E order \in IdOrders(raw_data_ids) :
        Transform(raw_data_ids, order)

Load == LoadRecords(cands)

RunPipelineAny ==
    \E expressions \in MainLists, range \in MainRanges, ingestion_mode \in MainModes,
       v \in MainValues, tk \in StrictTicks :
        RunPipeline(expressions, range[1], range[2], ingestion_mode, v, tk, MaxRaw)

Next == ExtractAny \/ TransformAny \/ Load \/ RunPipelineAny

Spec == Init /\ [][Next]_vars

----------------------------------------------------------------------------
(* SpecExtract: extract calls only, capped and uncapped (default and         *)
(* old_codes take the same path through extract_data), over one and two     *)
(* business days, a reversed range and a Saturday.                          *)

ExtractLists == {<<>>, <<E_USDD>>, <<E_BAD>>, <<E_BAD, E_USDD>>}

ExtractRanges == {<<0, 0>>, <<1, 1>>, <<0, 1>>, <<1, 0>>, <<2, 2>>}

ExtractAll ==
    ExtractOver(ExtractLists, ExtractRanges, MainModes, MainValues, MaxRawExtract)

SpecExtract == Init /\ [][ExtractAll]_vars

----------------------------------------------------------------------------
(* SpecCapped: extract calls in modes default and old_codes only *)

CappedLists == SeqsUpTo({E_USDD}, MaxExprs)

ExtractCapped ==
    ExtractOver(CappedLists, AllRanges, CappedModes, MainValues, MaxRawCapped)

SpecCapped == Init /\ [][ExtractCapped]_vars

----------------------------------------------------------------------------
(* SpecLoad: load calls with any list of candidates a caller can construct, *)
(* and with the list of objects of the call before                          *)

Candidate(expression, d, currency, x, y, ref, value, raw_data_id) ==
    [expression |-> expression, date |-> d, currency |-> currency, x |-> x,
     y |-> y, ref |-> ref, value |-> value, raw_data_id |-> raw_data_id,
     detached |-> FALSE]

\* Two candidates per (expression, date) that differ in every other field,
\* and one whose value passes the field validators but not the table's range.
LoadUniverse ==
    {Candidate(e, 1, "USD", "5y", "10y", "SOFR", Val(ApiBase), 1) : e \in {E_USDD, E_GBP}}
    \cup {Candidate(e, 1, "GBP", "1y", "2y", "Libor", Val(ApiBase + ApiSpread), 2) :
            e \in {E_USDD, E_GBP}}
    \cup {Candidate(E_USDD, 1, "USD", "5y", "10y", "SOFR", Val(CleanValueMax + 1), 1)}

LoadAny == \E clean_records \in SeqsUpTo(LoadUniverse, MaxBatch) : LoadRecords(clean_records)

SpecLoad == Init /\ [][LoadAny \/ Load]_vars

----------------------------------------------------------------------------
(* SpecFault: extract calls in which the environment makes one step fail for *)
(* one expression of the list, and calls with a mode outside RunModeEnum     *)

Faults ==
    {NoFault} \cup
    {f \in [at : 1..2, kind : FaultKinds, row : 1..2] : f.kind = "insert" \/ f.row = 1}

FaultTicks == {[blob |-> 1, row |-> 1, fault |-> f] : f \in Faults}
FaultLists == {<<E_USDD>>, <<E_USDD, E_GBP>>, <<E_BAD, E_USDD>>}
FaultRanges == {<<1, 1>>, <<0, 1>>}
FaultModes == {"default", "historical", "unsupported"}

ExtractFaulty ==
    \E expressions \in FaultLists, range \in FaultRanges, ingestion_mode \in FaultModes,
       v \in MainValues, tk \in FaultTicks :
        Extract(expressions, range[1], range[2], ingestion_mode, v, tk, MaxRawFault)

SpecFault == Init /\ [][ExtractFaulty]_vars

-----------------------------------------------------------------------------
(* SpecEmpty: extract calls in which the data source answers with an empty   *)
(* frame, for one expression of the list or, on a weekend, for all of them   *)

EmptyAnswers == {NoFault} \cup {[at |-> p, kind |-> "empty", row |-> 1] : p \in 1..2}
EmptyTicks == {[blob |-> 1, row |-> 1, fault |-> f] : f \in EmptyAnswers}
EmptyLists == {<<E_USDD>>, <<E_USDD, E_GBP>>, <<E_BAD, E_USDD>>}
EmptyRanges == {<<1, 1>>, <<2, 2>>, <<0, 1>>}

ExtractEmpty ==
    \E expressions \in EmptyLists, range \in EmptyRanges, ingestion_mode \in MainModes,
       v \in MainValues, tk \in EmptyTicks :
        Extract(expressions, range[1], range[2], ingestion_mode, v, tk, MaxRawEmpty)

SpecEmpty == Init /\ [][ExtractEmpty]_vars

-----------------------------------------------------------------------------
(* SpecRace: pairs of extract calls whose steps interleave in every order,  *)
(* one call after the other included                                         *)

RunStep ==
    \E p \in Runs :
        \/ \E expression \in RaceExpressions : RunCheck(p, expression)
        \/ \E v \in MainValues : RunStore(p, v)
        \/ RunVersion(p)
        \/ RunCommit(p)

SpecRace == Init /\ [][RunStep \/ RunsOver]_vars

-----------------------------------------------------------------------------
(* SpecStale: pairs of transform-and-load runs whose calls interleave in     *)
(* every order, between extract calls that add versions of two keys          *)

StaleLists == {<<E_USDD>>, <<E_GBP>>}

ExtractStale ==
    \E expressions \in StaleLists, v \in MainValues, tk \in StrictTicks :
        Extract(expressions, RaceDate, RaceDate, "historical", v, tk, MaxRawStale)

RunPhase == \E p \in Runs : RunTransform(p) \/ RunLoad(p)

SpecStale == Init /\ [][ExtractStale \/ RunPhase \/ RunsOver]_vars

-----------------------------------------------------------------------------
(* SpecHistorical: extract calls in modes historical and default on a store  *)
(* that may hold more than three versions of a key                          *)

HistoricalLists == {<<E_USDD>>, <<E_GBP>>, <<E_USDD, E_GBP>>}
HistoricalRanges == {<<1, 1>>, <<0, 1>>, <<2, 2>>}

ExtractHistorical ==
    ExtractOver(HistoricalLists, HistoricalRanges, MainModes, MainValues, MaxRawHistorical)

SpecHistorical == Init /\ [][ExtractHistorical]_vars

-----------------------------------------------------------------------------
(* SpecIntegrity: the four operations on a store whose wall clock may stand  *)
(* still between two readings, so that several fetches share one             *)
(* fetch_timestamp; loads also of candidates that no transform produced      *)

TiedTicks == {[blob |-> b, row |-> 0, fault |-> NoFault] : b \in {0, 1}}
IntegrityLists == {<<E_USDD>>, <<E_GBP>>}

ExtractTied ==
    \E expressions \in IntegrityLists, v \in MainValues, tk \in TiedTicks :
        Extract(expressions, 1, 1, "historical", v, tk, MaxRawIntegrity)

TransformNew == Transform(NoIds, <<>>)

IntegrityCandidates ==
    {Candidate(E_GBP, 1, "GBP", "1y", "2y", "Libor", Val(ApiBase + ApiSpread), 2)}

LoadOne == \E c \in IntegrityCandidates : LoadRecords(<<c>>)

SpecIntegrity ==
    Init /\ [][ExtractTied \/ TransformNew \/ Load \/ LoadOne \/ CheckIntegrity]_vars

-----------------------------------------------------------------------------
(* SpecReject: extract, transform and load calls on a store that receives    *)
(* rows of an expression the request check lets through and the parser      *)
(* turns down                                                                *)

RejectLists == {<<E_JPY>>, <<E_USDD>>, <<E_JPY, E_USDD>>}

ExtractReject ==
    ExtractOver(RejectLists, {<<1, 1>>}, MainModes, MainValues, MaxRawReject)

SpecReject == Init /\ [][ExtractReject \/ TransformNew \/ Load]_vars

-----------------------------------------------------------------------------
(* SpecRepeat: pipeline runs in the capped modes for one business day, over  *)
(* lists of parseable expressions                                           *)

RepeatLists == {<<E_USDD>>, <<E_GBP>>, <<E_USDD, E_GBP>>, <<E_USDD, E_USDD>>}

RunPipelineRepeat ==
    \E expressions \in RepeatLists, ingestion_mode \in CappedModes, v \in MainValues,
       tk \in StrictTicks :
        RunPipeline(expressions, RaceDate, RaceDate, ingestion_mode, v, tk, MaxRawRepeat)

SpecRepeat == Init /\ [][RunPipelineRepeat]_vars

-----------------------------------------------------------------------------
(* SpecIds: transform called with every kind of raw_data_ids argument       *)

IdsLists == {<<E_USDD>>}

ExtractIds == ExtractOver(IdsLists, {<<1, 1>>}, MainModes, MainValues, MaxRawIds)

\* raw_data_ids omitted, empty, or a list of ids, stored or not, with repeats.
GivenIds == {NoIds} \cup {Ids(l) : l \in SeqsUpTo(1..(MaxRawIds + 1), MaxIdList)}

TransformIds ==
    \E raw_data_ids \in GivenIds :
        \E order \in IdOrders(raw_data_ids) : Transform(raw_data_ids, order)

SpecIds == Init /\ [][ExtractIds \/ TransformIds \/ Load]_vars

-----------------------------------------------------------------------------
(* SpecAdjust: extract and transform calls on expressions of the adjusted   *)
(* pair (USDD) and of the pairs next to it (USD/Libor, GBP/SOFR)            *)

AdjustLists == {<<E_USDD>>, <<E_USD>>, <<E_GBP>>}

ExtractAdjust ==
    \E expressions \in AdjustLists, v \in MainValues, tk \in StrictTicks :
        Extract(expressions, 1, 1, "historical", v, tk, MaxRawAdjust)

TransformAdjust ==
    \E raw_data_ids \in {NoIds} \cup {Ids(<<i>>) : i \in 1..MaxRawAdjust} :
        \E order \in IdOrders(raw_data_ids) : Transform(raw_data_ids, order)

SpecAdjust == Init /\ [][ExtractAdjust \/ TransformAdjust]_vars

-----------------------------------------------------------------------------
(* SpecParse: the parser applied to strings with and without the DB( )      *)
(* wrapping whose bodies have 1..MaxTokens tokens, and the expression lists *)
(* the extractor offers for a mode                                          *)

CurrencyTokens == {"USD", "USDD", "EUR", "GBP", "CHF", "JPY"}
TenorTokens == {"1y", "2y", "5y", "10y", "3y"}
IndicatorTokens == {"SONIA", "SARON", "LIBOR"}

Bodies7 ==
    {<<t0, t1, c, a, b, "PAYER", "VOLBPVOL">> :
        t0 \in {"COV", "CUV", ""}, t1 \in {"VOLSWAPTION", "VOLCAP"},
        c \in CurrencyTokens, a \in TenorTokens, b \in TenorTokens}

Bodies8 ==
    {<<"COV", "VOLSWAPTION", c, i, a, b, "PAYER", "VOLBPVOL">> :
        c \in CurrencyTokens, i \in IndicatorTokens,
        a \in TenorTokens, b \in TenorTokens}

\* The first n tokens of a body, filled up with the token X beyond its end.
Resize(parts, n) == [k \in 1..n |-> IF k <= Len(parts) THEN parts[k] ELSE "X"]

ParseBodies ==
    Bodies7 \cup Bodies8
      \cup {Resize(p, n) : p \in {b \in Bodies7 : b[3] = "USD" /\ b[4] = "2y" /\ b[5] = "1y"},
                           n \in 1..MaxTokens}

ParseInputs ==
    {Expr(p) : p \in ParseBodies}
      \cup {[head |-> h, tail |-> t, parts |-> p] :
              h \in BOOLEAN, t \in BOOLEAN,
              p \in {b \in Bodies7 \cup Bodies8 :
                       b[1] = "COV" /\ b[2] = "VOLSWAPTION" /\ b[3] = "EUR"}}

ParseAny == \E expression \in ParseInputs : Parse(expression)

\* The modes of RunModeEnum and two values outside it.
ModeValues == Modes \cup {"unsupported", ""}

GetExpressionsAny == \E mode \in ModeValues : GetExpressions(mode)

SpecParse == Init /\ [][ParseAny \/ GetExpressionsAny]_vars

----------------------------------------------------------------------------
(* Properties *)

KeysOf(table) == {<<table[i].expression, table[i].date>> : i \in 1..Len(table)}
RowsOfExpression(table, expression) ==
    {i \in 1..Len(table) : table[i].expression = expression}
BlobsFor(store, expression) ==
    {i \in 1..Len(store) : store[i].expression = expression}
IsPrefix(s, t) == Len(s) <= Len(t) /\ SubSeq(t, 1, Len(s)) = s
SameKey(a, b) == a.expression = b.expression /\ a.date = b.date

\* C1: after any sequence of extract calls in modes default and old_codes
\* from the empty store no (expression, date) has more than 3 raw rows, and
\* an extract call in those modes for an (expression, start_date) that holds
\* 3 rows does not call the data source for that expression and adds neither
\* a row nor a blob for it.
C1_VersionCap ==
    /\ \A k \in KeysOf(raw) : Cardinality(RowsFor(raw, k[1], k[2])) <= VersionLimit
    /\ \A expressions \in CappedLists, d \in Dates, ingestion_mode \in CappedModes,
          v \in MainValues, tk \in StrictTicks :
         LET r == ExtractData(raw, blobs, clock, expressions, d, d, ingestion_mode, v, tk)
         IN \A e \in Range(expressions) :
              Cardinality(RowsFor(raw, e, d)) = VersionLimit =>
                /\ RowsOfExpression(r.raw, e) = RowsOfExpression(raw, e)
                /\ BlobsFor(r.blobs, e) = BlobsFor(blobs, e)
                /\ e \notin Range(r.calls)

\* An extract call has just skipped an expression whose key holds 3 rows.
C1_Witness ==
    /\ last.op = "extract" /\ ~last.raised
    /\ last.out.skipped # <<>>
    /\ \E k \in KeysOf(raw) : Cardinality(RowsFor(raw, k[1], k[2])) = VersionLimit

\* C2: the versions of the N raw rows of one (expression, date) are exactly
\* 1..N, and each row's version is 1 + the greatest version the key had when
\* the row was inserted, or 1 when it had none.
C2_Versions ==
    /\ \A k \in KeysOf(raw) :
         {raw[i].version : i \in RowsFor(raw, k[1], k[2])}
           = 1..Cardinality(RowsFor(raw, k[1], k[2]))
    /\ \A i \in 1..Len(raw) :
         LET prev == {raw[j].version :
                        j \in {j \in RowsFor(raw, raw[i].expression, raw[i].date) : j < i}}
         IN raw[i].version = IF prev = {} THEN 1 ELSE SetMax(prev) + 1

\* Two rows of one key with a row of another key inserted between them.
C2_Witness ==
    \E i, j, k \in 1..Len(raw) :
        /\ i < j /\ j < k
        /\ SameKey(raw[i], raw[k]) /\ ~SameKey(raw[i], raw[j])
        /\ raw[k].version = 2

\* C3: after any sequence of load calls with any candidate lists the clean
\* table holds at most one row per (expression, date).
C3_OnePerKey == \A a, b \in clean : SameKey(a, b) => a = b

\* A load call that received two different candidates of one key and stored one row.
C3_Witness ==
    /\ last.op = "load" /\ ~last.raised
    /\ Len(cands) = 2 /\ cands[1] # cands[2] /\ SameKey(cands[1], cands[2])
    /\ Cardinality(Existing(clean, cands[1])) = 1

LatestRawId(expression, d) == SetMax(RowsFor(raw, expression, d))

\* C4: when a complete pipeline run (extract, transform without ids, load of
\* its candidates) has ended, every clean row references the greatest raw id
\* stored for its (expression, date), and every (expression, date) that has a
\* raw row with a parseable expression has a clean row.
C4_LatestAfterRun ==
    (last.op = "pipeline" /\ last.out.success) =>
        /\ \A c \in clean :
             /\ RowsFor(raw, c.expression, c.date) # {}
             /\ c.raw_data_id = LatestRawId(c.expression, c.date)
        /\ \A i \in 1..Len(raw) :
             ParseExpression(raw[i].expression).ok => Existing(clean, raw[i]) # {}

\* A pipeline run has ended that updated a clean row to a later raw row.
C4_Witness ==
    /\ last.op = "pipeline" /\ last.out.success
    /\ last.out.load_metrics.records_updated >= 1
    /\ \E c \in clean : c.raw_data_id >= 2

NewerOrMissing(view, c) ==
    \A e \in Existing(view, c) : c.raw_data_id > e.raw_data_id

\* C5 (as stated): every candidate transform returns, however it is called,
\* has no clean row for its (expression, date) or a raw id greater than the
\* one that clean row references; and no step lowers the raw id a clean row
\* references.
C5_NewerOrMissing ==
    /\ [](last.op = "transform" =>
            \A k \in 1..Len(cands) : NewerOrMissing(clean, cands[k]))
    /\ [][\A e \in clean, f \in clean' :
            SameKey(e, f) => f.raw_data_id >= e.raw_data_id]_vars

MutableFields(c) == <<c.currency, c.x, c.y, c.ref, c.value, c.raw_data_id>>

\* C6 (as stated): loading a candidate c a second time, right after the
\* call that stored it, leaves exactly one clean row for c's (expression,
\* date) with c's field values, and the second call reports updated = 1 and
\* inserted = 0.
C6_Original ==
    (/\ last.op = "load" /\ Len(cands) = 1
     /\ cands[1].detached /\ last.out.results # <<"inserted">>) =>
        /\ ~last.raised
        /\ last.out.metrics.records_updated = 1
        /\ last.out.metrics.records_inserted = 0
        /\ Cardinality(Existing(clean, cands[1])) = 1
        /\ \A e \in Existing(clean, cands[1]) :
             MutableFields(e) = MutableFields(cands[1])

\* C7: in modes default and old_codes an extract call with start_date #
\* end_date raises before any expression is processed: no call of the data
\* source, no blob, no row, and the store is as it was, for every list.
C7_RangeRejected ==
    /\ [](\A expressions \in ExtractLists, range \in AllRanges,
             ingestion_mode \in CappedModes, v \in MainValues, tk \in StrictTicks :
            range[1] # range[2] =>
              LET r == ExtractData(raw, blobs, clock, expressions, range[1], range[2],
                                   ingestion_mode, v, tk)
              IN /\ r.raised
                 /\ r.raw = raw /\ r.blobs = blobs /\ r.clock = clock
                 /\ r.calls = <<>> /\ r.skipped = <<>>
                 /\ r.metrics = NoExtractMetrics)
    /\ [][(last'.op = "extract" /\ last'.raised) =>
            (raw' = raw /\ blobs' = blobs /\ clean' = clean
             /\ last'.out.calls = <<>>)]_vars

\* An extract call has raised on a store that already held rows.
C7_Witness == last.op = "extract" /\ last.raised /\ raw # <<>> /\ blobs # <<>>

Ascending(s) == \A a, b \in 1..Len(s) : a < b => s[a] < s[b]

\* C8: transform without ids selects exactly the raw rows that have no clean
\* row for their (expression, date) or an id greater than the raw id that
\* clean row references, each once, in ascending id order.
C8_Selection ==
    (last.op = "transform" /\ ~last.out.raw_data_ids.given) =>
        /\ Ascending(last.out.selected)
        /\ Range(last.out.selected) =
             {i \in 1..Len(raw) :
                \/ Existing(clean, raw[i]) = {}
                \/ \E e \in Existing(clean, raw[i]) : i > e.raw_data_id}

\* A transform without ids selected a row newer than the one its clean row
\* references, and left another row out.
C8_Witness ==
    /\ last.op = "transform" /\ ~last.out.raw_data_ids.given
    /\ Len(last.out.selected) < Len(raw)
    /\ \E k \in 1..Len(last.out.selected) :
         Existing(clean, raw[last.out.selected[k]]) # {}

\* C9: the upsert of one candidate inserts it (result "inserted") when no
\* clean row has its (expression, date); otherwise it overwrites currency,
\* expiry, tenor, reference_rate, value and raw id of that row, keeps its id,
\* expression and date, adds no row (result "updated"); rows of other keys
\* are unchanged in both cases.
C9_Upsert ==
    \A c \in LoadUniverse :
        LET r == UpsertCleanRecord(clean, c)
            old == Existing(clean, c)
            new == Existing(r.view, c)
        IN /\ r.view \ new = clean \ old
           /\ Cardinality(new) = 1
           /\ \A n \in new : MutableFields(n) = MutableFields(c)
           /\ IF old = {}
              THEN r.result = "inserted"
              ELSE /\ r.result = "updated"
                   /\ \A o \in old, n \in new : n.clean_data_id = o.clean_data_id

\* A load call has inserted one candidate and updated the row of another key.
C9_Witness ==
    /\ last.op = "load" /\ ~last.raised
    /\ last.out.results \in {<<"inserted", "updated">>, <<"updated", "inserted">>}
    /\ Cardinality(clean) = 2

MainExtractInputs == MainLists \X MainRanges \X MainModes \X MainValues \X StrictTicks

\* The raw table after one and after two extract calls with the same arguments.
ExtractTwice(in) ==
    LET first == ExtractData(raw, blobs, clock, in[1], in[2][1], in[2][2], in[3], in[4], in[5])
        second == ExtractData(first.raw, first.blobs, first.clock,
                              in[1], in[2][1], in[2][2], in[3], in[4], in[5])
    IN [first |-> first.raw, second |-> second.raw, raised |-> first.raised]

TransformLeavesTables == last'.op = "transform" => (raw' = raw /\ clean' = clean)
\* Load is the only load call of Spec: a load step taken right after a load
\* step is the call repeated with the same list.
LoadAgainLeavesTables ==
    (last.op = "load" /\ last'.op = "load") => (raw' = raw /\ clean' = clean)

\* C10 (as stated): a second run of extract, of transform or of load with the
\* arguments of the first, right after it, leaves the raw and the clean table
\* as the first run left them.
C10_Original ==
    /\ [](\A in \in MainExtractInputs : ExtractTwice(in).second = ExtractTwice(in).first)
    /\ [][TransformLeavesTables /\ LoadAgainLeavesTables]_vars

\* C10 (amended): transform and load are as stated; a second extract leaves
\* the clean table and the rows the first left, and appends a row only in
\* mode historical or for a key that held fewer than 3 rows after the first.
C10_Rerun ==
    /\ [](\A in \in MainExtractInputs :
            LET t == ExtractTwice(in)
            IN /\ IsPrefix(t.first, t.second)
               /\ \A i \in (Len(t.first) + 1)..Len(t.second) :
                    \/ in[3] = "historical"
                    \/ Cardinality(RowsFor(t.first, t.second[i].expression,
                                           t.second[i].date)) < VersionLimit)
    /\ [][/\ TransformLeavesTables
          /\ LoadAgainLeavesTables
          /\ last'.op = "extract" => (clean' = clean /\ IsPrefix(raw, raw'))]_vars

\* A load call has been repeated on the objects it had stored, after an
\* extract call had been repeated and had appended a second version.
C10_Witness ==
    /\ last.op = "load" /\ ~last.raised
    /\ \E k \in 1..Len(cands) : cands[k].detached
    /\ last.out.metrics.records_inserted = 0
    /\ \E i \in 1..Len(raw) : raw[i].version = 2

CountOf(seq, x) == Cardinality({k \in 1..Len(seq) : seq[k] = x})

\* C11: in an extract call that passes the date-range precondition, a failure
\* for one expression (request validation, _should_fetch_data, fetch, blob
\* write or row insert) is counted once in errors and ends only that
\* iteration: every expression of the list is processed, an expression that
\* is valid and hit by no failure does not fail, the call returns, and the
\* rows of every expression that succeeded are in the committed raw table.
C11_ErrorIsolation ==
    \A expressions \in FaultLists, range \in FaultRanges, ingestion_mode \in FaultModes,
       v \in MainValues, tk \in FaultTicks :
      LET r == ExtractData(raw, blobs, clock, expressions, range[1], range[2],
                           ingestion_mode, v, tk)
          new == (Len(raw) + 1)..Len(r.raw)
      IN ~(ingestion_mode \in CappedModes /\ range[1] # range[2]) =>
           /\ ~r.raised
           /\ Len(r.outcomes) = Len(expressions)
           /\ r.metrics.errors = CountOf(r.outcomes, "error")
           /\ \A p \in 1..Len(expressions) :
                /\ (~APIRequestValid(expressions[p], range[1], range[2])
                      \/ ingestion_mode \notin Modes) => r.outcomes[p] = "error"
                /\ (/\ APIRequestValid(expressions[p], range[1], range[2])
                    /\ ingestion_mode \in Modes
                    /\ tk.fault.at # p) => r.outcomes[p] # "error"
                /\ r.outcomes[p] = "ok" =>
                     \A d \in Range(BDateRange(range[1], range[2])) :
                        \E i \in new : /\ r.raw[i].expression = expressions[p]
                                       /\ r.raw[i].date = d
           /\ IsPrefix(raw, r.raw)
           /\ r.metrics.rows_inserted =
                Len(BDateRange(range[1], range[2])) * CountOf(r.outcomes, "ok")

\* An extract call has returned in which the first expression failed and the
\* second was fetched and stored.
C11_Witness ==
    /\ last.op = "extract" /\ ~last.raised
    /\ last.out.outcomes = <<"error", "ok">>
    /\ last.out.metrics.errors = 1
    /\ last.out.metrics.rows_inserted >= 1
    /\ raw # <<>>

\* C12 (as stated): a load call returns, with the batch committed, whatever
\* happens to single candidates: processed is the number of candidates and
\* equals inserted + updated + failed, and a candidate fails only for a
\* failure of its own upsert, so that every other candidate is upserted.
C12_FailureIsolation ==
    last.op = "load" =>
        /\ ~last.raised
        /\ last.out.metrics.records_processed = Len(cands)
        /\ last.out.metrics.records_processed =
             last.out.metrics.records_inserted + last.out.metrics.records_updated
               + last.out.metrics.records_failed
        /\ \A k \in 1..Len(cands) :
             (last.out.results[k] = "failed") => cands[k].detached

\* The RawRecord with a given id.
RawById(id) == CHOOSE r \in Range(raw) : r.raw_data_id = id

\* The candidate transform_raw_data builds from a RawRecord that parses.
CandidateOf(r) ==
    LET p == ParseExpression(r.expression).value
    IN [expression |-> r.expression, date |-> r.date, currency |-> p[1],
        x |-> p[2], y |-> p[3], ref |-> p[4],
        value |-> ApplyValueTransformations(r.value, p[1], p[4]),
        raw_data_id |-> r.raw_data_id, detached |-> FALSE]

Parses(id) == ParseExpression(RawById(id).expression).ok
Validates(id) == Parses(id) /\ CleanDataValid(CandidateOf(RawById(id)))
FailsParse(id) == ~Parses(id)
FailsValidation(id) == Parses(id) /\ ~Validates(id)

\* C13: after a transform call every selected RawRecord has exactly one
\* outcome: the candidates are those of the selected records that parse and
\* validate, in selection order (a failing record gives no candidate and does
\* not stop the later ones), rejected counts the records whose parse fails,
\* validation_errors those whose candidate fails validation, processed counts
\* all of them and is the sum of the three.
C13_OneOutcome ==
    last.op = "transform" =>
        LET m == last.out.metrics
            sel == last.out.selected
            good == SelectSeq(sel, Validates)
        IN /\ m.rows_processed = Len(sel)
           /\ m.rows_processed = m.rows_transformed + m.rows_rejected + m.validation_errors
           /\ m.rows_transformed = Len(good)
           /\ m.rows_rejected = Len(SelectSeq(sel, FailsParse))
           /\ m.validation_errors = Len(SelectSeq(sel, FailsValidation))
           /\ Len(cands) = m.rows_transformed
           /\ \A k \in 1..Len(good) : cands[k] = CandidateOf(RawById(good[k]))

\* A transform call whose selection starts with a rejected record and goes on
\* to one that is transformed.
C13_Witness ==
    /\ last.op = "transform"
    /\ Len(last.out.selected) >= 2
    /\ FailsParse(last.out.selected[1])
    /\ Validates(last.out.selected[2])
    /\ last.out.metrics.rows_rejected = 1
    /\ last.out.metrics.rows_transformed = 1
    /\ Len(cands) = 1

\* The (clean row, raw row) pairs of the join at the latest fetch_timestamp.
JoinedPairs ==
    LET latest == SetMax({raw[i].fetch_timestamp : i \in 1..Len(raw)})
    IN {p \in clean \X (1..Len(raw)) :
          /\ p[1].expression = raw[p[2]].expression
          /\ p[1].date = raw[p[2]].date
          /\ raw[p[2]].fetch_timestamp = latest}

JoinedKeys == {<<p[1].expression, p[1].date>> : p \in JoinedPairs}

RowsOfKey(k) == {p \in JoinedPairs : <<p[1].expression, p[1].date>> = k}

\* What every integrity report on a non-empty raw table satisfies, apart from
\* the value of the duplicate count.
IntegrityReportShape(rep) ==
    /\ rep.validation_fetch_timestamp =
         <<SetMax({raw[i].fetch_timestamp : i \in 1..Len(raw)})>>
    /\ rep.records_checked = Cardinality(JoinedPairs)
    /\ rep.valid <=> rep.duplicate_combinations = 0
    /\ Len(rep.issues) = (IF rep.valid THEN 0 ELSE 1)
    /\ \A k \in JoinedKeys :
         (Cardinality(JoinedPairs) = 2 /\ Cardinality(RowsOfKey(k)) = 2)
            => (~rep.valid /\ rep.duplicate_combinations = 1)

C15_EmptyRawIsValid ==
    /\ [](raw = <<>> =>
            LET rep == ValidateCleanDataIntegrity(raw, clean)
            IN /\ rep.valid
               /\ rep.duplicate_combinations = 0
               /\ rep.records_checked = 0
               /\ rep.validation_fetch_timestamp = NoTimestamp
               /\ rep.issues = <<"No raw data records found">>)
    /\ [](last.op = "integrity" /\ raw = <<>> =>
            last.out = ValidateCleanDataIntegrity(raw, clean))
    /\ [][last'.op = "integrity" => (raw' = raw /\ clean' = clean)]_vars

\* A report taken on an empty raw table while the clean table holds a row.
C15_Witness ==
    /\ last.op = "integrity"
    /\ raw = <<>>
    /\ clean # {}
    /\ last.out.valid
    /\ Len(last.out.issues) = 1
    /\ last.out.records_checked = 0

\* C16: every step only appends to the raw table (stored rows are neither
\* changed nor removed); a transform call writes neither table, load and
\* check_integrity calls leave the raw table as it is, and an extract call
\* leaves the clean table as it is.
C16_RawAppendOnly ==
    [][/\ IsPrefix(raw, raw')
       /\ last'.op = "transform" => (raw' = raw /\ clean' = clean)
       /\ last'.op \in {"load", "integrity"} => raw' = raw
       /\ last'.op = "extract" => clean' = clean]_vars

\* All four operations have acted: the raw table holds rows of two fetches,
\* the clean table a loaded row, and an integrity report was taken.
C16_Witness ==
    /\ last.op = "integrity"
    /\ Len(raw) >= 2
    /\ raw[1].fetch_timestamp < raw[Len(raw)].fetch_timestamp
    /\ \E c \in clean : c.raw_data_id = 1
    /\ cands # <<>>

ValueErrors ==
    {"ValueError:format", "ValueError:parts", "ValueError:indicator",
     "ValueError:x_tenor", "ValueError:y_tenor", "ValueError:ref_rate",
     "ValueError:missing"}

\* The grounds on which a string is outside the grammar: no DB( ) wrapping,
\* token 0 not COV, token 1 missing or not VOLSWAPTION, or a token count
\* other than 7 and 8.
OutsideGrammar(expression) ==
    \/ ~expression.head
    \/ ~expression.tail
    \/ expression.parts[1] # "COV"
    \/ Len(expression.parts) < 2
    \/ expression.parts[2] # "VOLSWAPTION"
    \/ Len(expression.parts) \notin {7, 8}

\* C18 (as stated): parsing a string outside the grammar, bodies of fewer
\* than two tokens included, fails with ValueError and returns no result.
C18_RejectedWithValueError ==
    (last.op = "parse" /\ OutsideGrammar(last.out.expression)) =>
        /\ last.raised
        /\ ~last.out.result.ok
        /\ last.out.result.value = "None"
        /\ last.out.result.error \in ValueErrors

\* C19: a successful parse of a 7-token body takes the currency from token
\* 2, the swap tenor (y) from token 3 and the option expiry (x) from token 4;
\* of an 8-token body the currency from token 2, the indicator from token 3,
\* the swap tenor from token 4 and the option expiry from token 5 (tokens
\* counted from 0; the result is <<currency, x, y, ref>>).  An 8-token GBP or
\* CHF body whose token 3 is neither SONIA nor SARON is rejected with
\* ValueError.
C19_TokenPositions ==
    last.op = "parse" =>
        LET parts == last.out.expression.parts
            res == last.out.result
        IN /\ (res.ok /\ Len(parts) = 7) =>
                 /\ res.value[1] = (IF parts[3] = "USDD" THEN "USD" ELSE parts[3])
                 /\ res.value[3] = parts[4]
                 /\ res.value[2] = parts[5]
           /\ (res.ok /\ Len(parts) = 8) =>
                 /\ res.value[1] = (IF parts[3] = "USDD" THEN "USD" ELSE parts[3])
                 /\ res.value[3] = parts[5]
                 /\ res.value[2] = parts[6]
                 /\ parts[3] \in {"GBP", "CHF"} =>
                      /\ parts[4] \in {"SONIA", "SARON"}
                      /\ res.value[4] = (IF parts[4] = "SONIA" THEN "SOFR" ELSE "SARON")
           /\ res.ok => Len(parts) \in {7, 8}
           /\ (/\ ~OutsideGrammar(last.out.expression)
               /\ Len(parts) = 8
               /\ parts[3] \in {"GBP", "CHF"}
               /\ parts[4] \notin {"SONIA", "SARON"}) =>
                 (~res.ok /\ res.error = "ValueError:indicator")

\* An 8-token body was parsed whose tokens 4 and 5 differ.
C19_Witness ==
    /\ last.op = "parse"
    /\ last.out.result.ok
    /\ last.out.expression.parts =
         <<"COV", "VOLSWAPTION", "GBP", "SONIA", "2y", "1y", "PAYER", "VOLBPVOL">>
    /\ last.out.result.value = <<"GBP", "1y", "2y", "SOFR">>

\* C20: the parser accepts only an option expiry among 1y, 5y and a swap
\* tenor among 2y, 5y, 10y: a string that is otherwise well formed (inside
\* the grammar, indicator accepted) but has another expiry or tenor fails
\* with ValueError, and every returned tuple has its expiry and tenor inside
\* these sets.
C20_TenorSets ==
    last.op = "parse" =>
        LET parts == last.out.expression.parts
            res == last.out.result
            n == Len(parts)
            expiry == parts[n - 2]
            tenor == parts[n - 3]
        IN /\ res.ok => (res.value[2] \in {"1y", "5y"} /\ res.value[3] \in {"2y", "5y", "10y"})
           /\ (/\ ~OutsideGrammar(last.out.expression)
               /\ ~(n = 8 /\ parts[3] \in {"GBP", "CHF"}
                          /\ parts[4] \notin {"SONIA", "SARON"})
               /\ (expiry \notin {"1y", "5y"} \/ tenor \notin {"2y", "5y", "10y"})) =>
                 /\ ~res.ok
                 /\ res.value = "None"
                 /\ res.error \in {"ValueError:x_tenor", "ValueError:y_tenor"}

\* A well-formed body was rejected whose expiry token is a swap tenor only.
C20_Witness ==
    /\ last.op = "parse"
    /\ last.out.expression = Expr(<<"COV", "VOLSWAPTION", "EUR", "5y", "10y", "PAYER", "VOLBPVOL">>)
    /\ ~last.out.result.ok
    /\ last.out.result.error = "ValueError:x_tenor"

MappedCurrencies == {"USD", "USDD", "EUR", "GBP", "CHF"}

\* A body inside the grammar whose indicator and tenors are accepted.
WellFormed(expression) ==
    LET parts == expression.parts
    IN /\ ~OutsideGrammar(expression)
       /\ ~(Len(parts) = 8 /\ parts[3] \in {"GBP", "CHF"}
                           /\ parts[4] \notin {"SONIA", "SARON"})
       /\ XTenor(parts) \in {"1y", "5y"}
       /\ YTenor(parts) \in {"2y", "5y", "10y"}

\* C21 (as stated): the reference-rate lookup never fails: for every
\* currency token and body it returns a rate name or None, and None for every
\* currency outside USD, USDD, EUR, GBP, CHF; and a well-formed expression
\* for which the lookup gives no rate fails to parse with the ValueError of
\* the unmappable reference rate.
C21_LookupNeverFails ==
    (last.op = "parse" /\ Len(last.out.expression.parts) \in {7, 8}) =>
        LET parts == last.out.expression.parts
            m == MapReferenceRate(parts[3], parts)
        IN /\ m.ok
           /\ parts[3] \notin MappedCurrencies => m.value = "None"
           /\ (WellFormed(last.out.expression) /\ (~m.ok \/ m.value = "None")) =>
                (~last.out.result.ok /\ last.out.result.error = "ValueError:ref_rate")

\* C22: the reference rate looked up for a body of 7 or 8 tokens is Libor
\* for USD, SOFR for USDD and Euribor for EUR whatever the token count and
\* indicator, Libor for GBP and CHF in a 7-token body, SOFR for GBP with
\* SONIA and SARON for CHF with SARON in an 8-token body; a successful parse
\* returns that rate.
C22_RateTable ==
    (last.op = "parse" /\ Len(last.out.expression.parts) \in {7, 8}) =>
        LET parts == last.out.expression.parts
            n == Len(parts)
            m == MapReferenceRate(parts[3], parts)
        IN /\ parts[3] = "USD" => m = Ok("Libor")
           /\ parts[3] = "USDD" => m = Ok("SOFR")
           /\ parts[3] = "EUR" => m = Ok("Euribor")
           /\ (parts[3] \in {"GBP", "CHF"} /\ n = 7) => m = Ok("Libor")
           /\ (parts[3] = "GBP" /\ n = 8 /\ parts[4] = "SONIA") => m = Ok("SOFR")
           /\ (parts[3] = "CHF" /\ n = 8 /\ parts[4] = "SARON") => m = Ok("SARON")
           /\ last.out.result.ok => last.out.result.value[4] = m.value

\* An 8-token USD body with an indicator was parsed and mapped to Libor.
C22_Witness ==
    /\ last.op = "parse"
    /\ last.out.result.ok
    /\ Len(last.out.expression.parts) = 8
    /\ last.out.expression.parts[3] = "USD"
    /\ last.out.expression.parts[4] = "SARON"
    /\ last.out.result.value[4] = "Libor"

\* C23 (as stated): an expression with the DB( ) wrapping, the two leading
\* literals, 7 or 8 tokens, a currency among USD, USDD, EUR, GBP, CHF, an
\* indicator among SONIA, SARON when it has 8 tokens and the currency is GBP
\* or CHF, and expiry and tenor inside their sets parses without failing to
\* a tuple of four non-empty fields.
C23_TotalOnGrammar ==
    (/\ last.op = "parse"
     /\ WellFormed(last.out.expression)
     /\ last.out.expression.parts[3] \in MappedCurrencies) =>
        /\ ~last.raised
        /\ last.out.result.ok
        /\ Len(last.out.result.value) = 4
        /\ \A k \in 1..4 : last.out.result.value[k] \notin {"", "None"}

RateNames == {"Libor", "SOFR", "Euribor", "SARON"}

\* C24: the adjustment multiplies a value by sqrt(252) exactly for the pair
\* (USD, SOFR) and returns it unchanged for every other pair; after a
\* transform call the value of a candidate differs from the value of its
\* RawRecord exactly when the currency token of the expression is USDD, and
\* is then that value times sqrt(252).
C24_AdjustOnlyUsdSofr ==
    /\ \A i \in 1..Len(raw), currency \in CurrencyTokens, ref_rate \in RateNames :
         LET value == raw[i].value
             adjusted == ApplyValueTransformations(value, currency, ref_rate)
         IN /\ (currency = "USD" /\ ref_rate = "SOFR") =>
                  adjusted = [n |-> value.n, r |-> value.r + 1]
            /\ ~(currency = "USD" /\ ref_rate = "SOFR") => adjusted = value
    /\ last.op = "transform" =>
         \A k \in 1..Len(cands) :
            LET r == RawById(cands[k].raw_data_id)
            IN /\ cands[k].value # r.value <=> r.expression.parts[3] = "USDD"
               /\ r.expression.parts[3] = "USDD" =>
                    cands[k].value = [n |-> r.value.n, r |-> r.value.r + 1]

\* A transform call returned a candidate for a GBP/SOFR row with the raw
\* value and one for a USDD row with the adjusted value.
C24_Witness ==
    /\ last.op = "transform"
    /\ Len(cands) = 2
    /\ \E k \in 1..2 : /\ cands[k].currency = "GBP" /\ cands[k].ref = "SOFR"
                       /\ cands[k].value = RawById(cands[k].raw_data_id).value
    /\ \E k \in 1..2 : /\ cands[k].currency = "USD" /\ cands[k].ref = "SOFR"
                       /\ cands[k].value # RawById(cands[k].raw_data_id).value

\* C25: normalization maps USDD to USD and every other currency token to
\* itself, and normalizing twice equals normalizing once; the rate is looked
\* up with the token as written, so a parsed expression with token USDD
\* yields currency USD with rate SOFR and one with token USD yields currency
\* USD with rate Libor.
C25_Normalization ==
    /\ \A c \in CurrencyTokens :
         /\ NormalizeCurrency(c) = (IF c = "USDD" THEN "USD" ELSE c)
         /\ NormalizeCurrency(NormalizeCurrency(c)) = NormalizeCurrency(c)
    /\ (last.op = "parse" /\ last.out.result.ok) =>
         LET token == last.out.expression.parts[3]
             res == last.out.result.value
         IN /\ res[1] = (IF token = "USDD" THEN "USD" ELSE token)
            /\ token = "USDD" => (res[1] = "USD" /\ res[4] = "SOFR")
            /\ token = "USD" => (res[1] = "USD" /\ res[4] = "Libor")

\* An expression with currency token USDD was parsed.
C25_Witness ==
    /\ last.op = "parse"
    /\ last.out.result.ok
    /\ last.out.expression.parts[3] = "USDD"
    /\ last.out.result.value[1] = "USD"
    /\ last.out.result.value[4] = "SOFR"

\* The new codes: USDD and EUR with 7 tokens, GBP with SONIA and CHF with
\* SARON with 8, for every swap tenor and option expiry; the legacy codes:
\* USD, GBP and CHF with 7 tokens.
NewCodeSet ==
    {Expr(<<"COV", "VOLSWAPTION", c, y, x, "PAYER", "VOLBPVOL">>) :
        c \in {"USDD", "EUR"}, y \in SwapTenorEnum, x \in OptionExpiryEnum}
    \cup {Expr(<<"COV", "VOLSWAPTION", "GBP", "SONIA", y, x, "PAYER", "VOLBPVOL">>) :
            y \in SwapTenorEnum, x \in OptionExpiryEnum}
    \cup {Expr(<<"COV", "VOLSWAPTION", "CHF", "SARON", y, x, "PAYER", "VOLBPVOL">>) :
            y \in SwapTenorEnum, x \in OptionExpiryEnum}

LegacyCodeSet ==
    {Expr(<<"COV", "VOLSWAPTION", c, y, x, "PAYER", "VOLBPVOL">>) :
        c \in {"USD", "GBP", "CHF"}, y \in SwapTenorEnum, x \in OptionExpiryEnum}

NoRepeats(seq) == Cardinality(Range(seq)) = Len(seq)

\* C26: get_expressions_for_mode returns the new codes for mode default, the
\* new codes followed by the legacy codes for mode old_codes and the legacy
\* codes only for mode historical, each code once; for every other mode
\* value it fails and returns no list.
C26_ExpressionsForMode ==
    last.op = "expressions" =>
        LET mode == last.out.mode
            res == last.out.result
        IN /\ mode = "default" =>
                (res.ok /\ Range(res.value) = NewCodeSet /\ NoRepeats(res.value))
           /\ mode = "old_codes" =>
                /\ res.ok /\ NoRepeats(res.value)
                /\ Range(res.value) = NewCodeSet \cup LegacyCodeSet
                /\ Range(SubSeq(res.value, 1, Cardinality(NewCodeSet))) = NewCodeSet
           /\ mode = "historical" =>
                (res.ok /\ Range(res.value) = LegacyCodeSet /\ NoRepeats(res.value))
           /\ mode \notin Modes =>
                (last.raised /\ ~res.ok /\ res.value = "None" /\ res.error = "ValueError:mode")

\* The legacy codes were returned for mode historical.
C26_Witness ==
    /\ last.op = "expressions"
    /\ last.out.mode = "historical"
    /\ last.out.result.ok
    /\ E_USD \in Range(last.out.result.value)
    /\ E_USDD \notin Range(last.out.result.value)

\* C27 (as stated): the RawRecords of one fetched batch (the rows that carry
\* the URI of the batch's blob) have one and the same fetch_timestamp, and it
\* is the fetch timestamp recorded in the payload of that blob.
C27_SharedTimestamp ==
    \A i \in 1..Len(raw) :
        /\ \A k \in 1..Len(raw) :
             raw[k].source_file_uri = raw[i].source_file_uri
                => raw[k].fetch_timestamp = raw[i].fetch_timestamp
        /\ \E b \in 1..Len(blobs) :
             /\ blobs[b].uri = raw[i].source_file_uri
             /\ blobs[b].fetch_timestamp = raw[i].fetch_timestamp


\* C28: when the data source answers with an empty frame for an expression,
\* the iteration is a no-op: no blob and no raw row is written for the
\* expression and no counter of the report moves for it (the counters count
\* the stored expressions and the errors only), and the other expressions of
\* the list end as they do in the call in which the answer is not empty.
C28_EmptyResultIsNoOp ==
    \A expressions \in EmptyLists, range \in EmptyRanges, ingestion_mode \in MainModes,
       v \in MainValues, tk \in EmptyTicks :
      LET r == ExtractData(raw, blobs, clock, expressions, range[1], range[2],
                           ingestion_mode, v, tk)
          r0 == ExtractData(raw, blobs, clock, expressions, range[1], range[2],
                            ingestion_mode, v, [tk EXCEPT !.fault = NoFault])
          days == Len(BDateRange(range[1], range[2]))
          stored == CountOf(r.outcomes, "ok")
      IN ~r.raised =>
           /\ Len(r.outcomes) = Len(expressions)
           /\ \A p \in 1..Len(expressions) :
                /\ (/\ APIRequestValid(expressions[p], range[1], range[2])
                    /\ (tk.fault.at = p \/ days = 0))
                     => r.outcomes[p] \in {"empty", "skipped"}
                /\ r.outcomes[p] = "empty" =>
                     /\ \A i \in (Len(raw) + 1)..Len(r.raw) :
                           r.raw[i].expression # expressions[p]
                     /\ \A b \in 1..Len(r.blobs) :
                           r.blobs[b].expression = expressions[p]
                              => \E a \in 1..Len(blobs) : blobs[a] = r.blobs[b]
                /\ tk.fault.at # p => r.outcomes[p] = r0.outcomes[p]
           /\ r.metrics.expressions_processed = stored
           /\ r.metrics.rows_fetched = days * stored
           /\ r.metrics.rows_inserted = days * stored
           /\ r.metrics.errors = CountOf(r.outcomes, "error")
           /\ Len(r.raw) = Len(raw) + days * stored
           /\ Len(r.blobs) = Len(blobs) + stored

\* An extract call has returned in which the data source answered with an
\* empty frame for the first expression and the second one was fetched and
\* stored: one blob and the rows of the second expression only.
C28_Witness ==
    /\ last.op = "extract" /\ ~last.raised
    /\ last.out.outcomes = <<"empty", "ok">>
    /\ last.out.calls = <<E_USDD, E_GBP>>
    /\ last.out.metrics.expressions_processed = 1
    /\ last.out.metrics.errors = 0
    /\ Len(blobs) = 1
    /\ raw # <<>>
    /\ \A i \in 1..Len(raw) : raw[i].expression = E_GBP


\* C29: in mode historical an extract call is not turned down for its date
\* range, whatever the pair (start_date, end_date): the call returns and
\* every expression of the list gets its iteration; with start_date <=
\* end_date a valid expression does not fail, and with start_date > end_date
\* the request of each expression fails its own validation and is counted
\* in errors, the call still returning.
C29_HistoricalAnyRange ==
    \A expressions \in ExtractLists, range \in AllRanges, v \in MainValues,
       tk \in StrictTicks :
      LET r == ExtractData(raw, blobs, clock, expressions, range[1], range[2],
                           "historical", v, tk)
      IN /\ ~r.raised
         /\ Len(r.outcomes) = Len(expressions)
         /\ \A p \in 1..Len(expressions) :
              /\ (range[1] <= range[2] /\ expressions[p] # E_BAD)
                   => r.outcomes[p] \in {"ok", "skipped", "empty"}
              /\ range[1] > range[2] => r.outcomes[p] = "error"
         /\ r.metrics.errors = CountOf(r.outcomes, "error")

\* An extract call over two days has returned and stored the rows of both
\* days in one batch (which only mode historical allows).
C29_Witness ==
    /\ last.op = "extract" /\ ~last.raised
    /\ "ok" \in Range(last.out.outcomes)
    /\ \E i, k \in 1..Len(raw) :
         /\ raw[i].source_file_uri = raw[k].source_file_uri
         /\ raw[i].date # raw[k].date
         /\ raw[i].ingestion_mode = "historical"


RunsDone == \A p \in Runs : runs.run[p].pc = "done"

Versions(table, expression) ==
    {table[i].version : i \in RowsFor(table, expression, RaceDate)}

\* What two extract calls leave: the rows and the versions stored per key.
Outcome(table) ==
    [rows |-> Len(table),
     versions |-> [e \in RaceExpressions |-> Versions(table, e)]]

\* The table after the call of run p and then the call of run q, from the
\* table the pair started from.
OneAfterTheOther(p, q) ==
    LET tk == CHOOSE x \in StrictTicks : TRUE
        first == ExtractData(runs.base, <<>>, 0, <<runs.run[p].expression>>,
                             RaceDate, RaceDate, RaceMode, runs.run[p].value, tk)
    IN ExtractData(first.raw, first.blobs, first.clock, <<runs.run[q].expression>>,
                   RaceDate, RaceDate, RaceMode, runs.run[q].value, tk)

Fetched(p) == runs.run[p].seen < VersionLimit

\* Both calls read the same maximum version of one key before either wrote.
SameVersionRead ==
    /\ runs.run[1].expression = runs.run[2].expression
    /\ Fetched(1) /\ Fetched(2)
    /\ runs.run[1].version = runs.run[2].version

\* Both calls passed the fewer-than-3 check of one key on the last free
\* version before either wrote.
SameCountRead ==
    /\ runs.run[1].expression = runs.run[2].expression
    /\ runs.run[1].seen = VersionLimit - 1
    /\ runs.run[2].seen = VersionLimit - 1

\* C30: two extract calls whose steps interleave can race for one
\* (expression, date), and the race shows.  Once both calls are over, what
\* they leave differs from what the two calls leave one after the other, in
\* either order, exactly when both read the same maximum version or both
\* passed the fewer-than-3 check on the last free version before either
\* wrote.  With the same version read, the second commit breaks the unique
\* constraint: that call raises and one row is stored instead of two.  With
\* the check passed twice and the versions read apart, the key ends with
\* four versions.
C30_VersionCountRace ==
    RunsDone =>
      LET differs ==
            \/ \E p \in Runs : runs.run[p].raised
            \/ /\ Outcome(raw) # Outcome(OneAfterTheOther(1, 2).raw)
               /\ Outcome(raw) # Outcome(OneAfterTheOther(2, 1).raw)
      IN /\ differs <=> (SameVersionRead \/ SameCountRead)
         /\ ~OneAfterTheOther(1, 2).raised /\ ~OneAfterTheOther(2, 1).raised
         /\ SameVersionRead =>
              /\ Cardinality({p \in Runs : runs.run[p].raised}) = 1
              /\ Len(raw) = Len(runs.base) + 1
              /\ Len(OneAfterTheOther(1, 2).raw) \in {Len(runs.base) + 1, Len(runs.base) + 2}
         /\ (SameCountRead /\ ~SameVersionRead) =>
              /\ Cardinality(RowsFor(raw, runs.run[1].expression, RaceDate)) = VersionLimit + 1
              /\ Cardinality(RowsFor(OneAfterTheOther(1, 2).raw, runs.run[1].expression,
                                     RaceDate)) = VersionLimit

\* Two calls in mode default are over, both passed the fewer-than-3 check on
\* two stored versions, none raised, and the key holds four versions.
C30_Witness ==
    /\ RunsDone
    /\ SameCountRead
    /\ \A p \in Runs : ~runs.run[p].raised
    /\ Cardinality(RowsFor(raw, runs.run[1].expression, RaceDate)) = VersionLimit + 1


\* The raw_data_id of the last candidate of the list for the key of c.
LastCandidateFor(clean_records, c) ==
    LET ks == {k \in 1..Len(clean_records) : SameKey(clean_records[k], c)}
    IN clean_records[SetMax(ks)].raw_data_id

LoadStepOf(p) == runs.run[p].pc = "transformed" /\ runs'.run[p].pc = "done"

\* Some clean row references, after the step, an older raw row than before.
Regresses ==
    \E c \in clean : \E d \in clean' : SameKey(c, d) /\ d.raw_data_id < c.raw_data_id

\* C31: the upsert overwrites without comparing: after the load of a run
\* every key of its candidates references the raw row of the run's last
\* candidate for the key, whatever the clean row referenced before.  So a
\* run whose candidates were selected before the other run's load committed
\* a newer raw row for the key takes the clean row back to the older one;
\* a load regresses a key only in that case.
C31_StaleUpsertRegresses ==
    [][\A p \in Runs :
         LoadStepOf(p) =>
           /\ ~runs'.run[p].raised
           /\ \A k \in 1..Len(runs.run[p].clean_records) :
                \E d \in clean' :
                   /\ SameKey(d, runs.run[p].clean_records[k])
                   /\ d.raw_data_id =
                        LastCandidateFor(runs.run[p].clean_records,
                                         runs.run[p].clean_records[k])
           /\ Regresses =>
                \E q \in Runs \ {p} :
                   /\ runs.run[q].pc = "done"
                   /\ \E k \in 1..Len(runs.run[q].clean_records) :
                        \E c \in clean :
                           /\ SameKey(c, runs.run[q].clean_records[k])
                           /\ c.raw_data_id = runs.run[q].clean_records[k].raw_data_id
                           /\ \E j \in 1..Len(runs.run[p].clean_records) :
                                 SameKey(c, runs.run[p].clean_records[j])
                           /\ c.raw_data_id >
                                LastCandidateFor(runs.run[p].clean_records, c)]_vars

\* Both runs have loaded, and the clean row references an older raw row than
\* the one a run had committed for the key.
C31_Witness ==
    /\ RunsDone
    /\ \E p \in Runs : \E k \in 1..Len(runs.run[p].clean_records) :
         \E c \in clean :
            /\ SameKey(c, runs.run[p].clean_records[k])
            /\ c.raw_data_id < runs.run[p].clean_records[k].raw_data_id


\* C32: in mode historical _should_fetch_data answers true whatever the store
\* holds, and an extract call appends, for every expression of its list and
\* every day the data source answers for, one row with the next version of
\* the key; so a key can hold more than three versions.
C32_HistoricalAlwaysFetches ==
    \A expressions \in HistoricalLists, range \in HistoricalRanges, v \in MainValues,
       tk \in StrictTicks :
      LET r == ExtractData(raw, blobs, clock, expressions, range[1], range[2],
                           "historical", v, tk)
          days == Range(BDateRange(range[1], range[2]))
      IN /\ \A p \in 1..Len(expressions) :
              /\ ShouldFetchData(raw, expressions[p], range[1], range[2], "historical")
              /\ r.outcomes[p] = (IF days = {} THEN "empty" ELSE "ok")
              /\ \A d \in days :
                   /\ Cardinality(RowsFor(r.raw, expressions[p], d)) =
                        Cardinality(RowsFor(raw, expressions[p], d)) + 1
                   /\ \E i \in (Len(raw) + 1)..Len(r.raw) :
                        /\ r.raw[i].expression = expressions[p]
                        /\ r.raw[i].date = d
                        /\ r.raw[i].version = NextVersion(raw, expressions[p], d)
                        /\ r.raw[i].ingestion_mode = "historical"
         /\ r.skipped = <<>>
         /\ IsPrefix(raw, r.raw)
         /\ Len(r.raw) = Len(raw) + Len(expressions) * Cardinality(days)

\* A historical extract call has returned after which a key holds four
\* versions, the fourth stored in mode historical.
C32_Witness ==
    /\ last.op = "extract" /\ ~last.raised
    /\ "ok" \in Range(last.out.outcomes)
    /\ \E i \in 1..Len(raw) :
         /\ raw[i].version = VersionLimit + 1
         /\ raw[i].ingestion_mode = "historical"
         /\ Cardinality(RowsFor(raw, raw[i].expression, raw[i].date)) = VersionLimit + 1


\* The candidate lists a load call is looked at for, and their reorderings.
LoadLists ==
    SeqsUpTo(LoadUniverse \ {Candidate(E_GBP, 1, "GBP", "1y", "2y", "Libor",
                                       Val(ApiBase + ApiSpread), 2)},
             MaxBatch) \cup {cands}
Reorderings(l) == {[k \in 1..Len(l) |-> l[o[k]]] : o \in Orders(1..Len(l))}
WithoutIds(table) == {[c EXCEPT !.clean_data_id = 0] : c \in table}
OnePerKey(l) == \A a, b \in 1..Len(l) : a # b => ~SameKey(l[a], l[b])

\* C33 (as stated): the clean table a load call leaves, row ids apart, is the
\* same for every order of the candidate list.
C33_OrderIndependent ==
    \A l \in LoadLists : \A m \in Reorderings(l) :
        WithoutIds(LoadCleanData(clean, l).clean) = WithoutIds(LoadCleanData(clean, m).clean)

\* C33 (amended): the order of the list does not matter for whether the call
\* raises, nor, row ids apart, for the table it leaves when the list has at
\* most one candidate per (expression, date).  With several candidates for a
\* key the order decides: the row of the key carries the fields of the last
\* candidate of the list that the session could use.
C33_LastCandidateWins ==
    \A l \in LoadLists :
        LET r == LoadCleanData(clean, l)
            usable(k) == {j \in 1..Len(l) : SameKey(l[j], l[k]) /\ ~l[j].detached}
        IN /\ \A m \in Reorderings(l) :
                /\ LoadCleanData(clean, m).raised = r.raised
                /\ OnePerKey(l) =>
                     WithoutIds(LoadCleanData(clean, m).clean) = WithoutIds(r.clean)
           /\ ~r.raised =>
                \A k \in 1..Len(l) :
                    usable(k) # {} =>
                      /\ Cardinality(Existing(r.clean, l[k])) = 1
                      /\ \A e \in Existing(r.clean, l[k]) :
                           MutableFields(e) = MutableFields(l[SetMax(usable(k))])

\* A load call was given two different candidates for one key and has left
\* the row of the key with the fields of the second.
C33_Witness ==
    /\ last.op = "load" /\ ~last.raised
    /\ Len(cands) = 2
    /\ SameKey(cands[1], cands[2])
    /\ MutableFields(cands[1]) # MutableFields(cands[2])
    /\ \E e \in clean : SameKey(e, cands[2]) /\ MutableFields(e) = MutableFields(cands[2])


\* The raw row a clean row references.
Reflected(c) == raw[c.raw_data_id]

\* C34: of two raw rows of one (expression, date) the one with the greater
\* id has the greater version.  A clean row references a raw row of its own
\* key, so the selection of transform without ids (no clean row for the key,
\* or an id greater than the referenced one) is the selection by version:
\* exactly the raw rows without a clean row or with a version newer than the
\* one the clean row reflects.
C34_IdOrderIsVersionOrder ==
    /\ \A i, j \in 1..Len(raw) :
         (SameKey(raw[i], raw[j]) /\ raw[i].raw_data_id < raw[j].raw_data_id)
            => raw[i].version < raw[j].version
    /\ \A c \in clean :
         /\ c.raw_data_id \in 1..Len(raw)
         /\ SameKey(Reflected(c), c)
    /\ LET tr == TransformRawData(raw, clean, NoIds, <<>>)
       IN Range(tr.selected) =
            {raw[i].raw_data_id : i \in
               {k \in 1..Len(raw) :
                  \/ Existing(clean, raw[k]) = {}
                  \/ \E c \in Existing(clean, raw[k]) :
                        raw[k].version > Reflected(c).version}}

\* Two versions of one key are stored, the clean row of the key reflects the
\* first, and the clean row of another key reflects its only version.
C34_Witness ==
    /\ \E i, j \in 1..Len(raw) :
         /\ SameKey(raw[i], raw[j]) /\ raw[i].version = 1 /\ raw[j].version = 2
         /\ \E c \in clean : c.raw_data_id = raw[i].raw_data_id
    /\ \E c \in clean : \E i \in 1..Len(raw) :
         ~SameKey(c, raw[i]) /\ Reflected(c).version = 1


\* C35: on every return of an extract call the report's rows_inserted equals
\* its rows_fetched and the number of rows the call added to the raw table,
\* and expressions_processed is the number of expressions the call added rows
\* for, also when the environment made a step fail for an expression.
C35_CountsMatchStore ==
    \A expressions \in FaultLists, range \in FaultRanges, ingestion_mode \in FaultModes,
       v \in MainValues, tk \in FaultTicks :
      LET r == ExtractData(raw, blobs, clock, expressions, range[1], range[2],
                           ingestion_mode, v, tk)
          new == (Len(raw) + 1)..Len(r.raw)
      IN ~r.raised =>
           /\ r.metrics.rows_inserted = r.metrics.rows_fetched
           /\ r.metrics.rows_inserted = Cardinality(new)
           /\ r.metrics.expressions_processed =
                Cardinality({e \in Range(expressions) :
                               \E i \in new : r.raw[i].expression = e})


\* C36: check_integrity reports valid = false only when the clean table holds
\* two rows with one (expression, date); raw rows of one key that share the
\* latest fetch_timestamp do not make the one clean row of the key count as
\* a duplicate.  So every report of a check_integrity call, and the report
\* the call would give in any reachable state, says valid = true.
C36_InvalidOnlyOnRealDuplicates ==
    LET rep == ValidateCleanDataIntegrity(raw, clean)
    IN /\ ~rep.valid => \E a, b \in clean : a # b /\ SameKey(a, b)
       /\ rep.valid
       /\ last.op = "integrity" => last.out.valid


\* The raw rows whose expression passes the request check and fails the parser.
Unparseable ==
    {i \in 1..Len(raw) : /\ ValidateExpressionFormat(raw[i].expression)
                         /\ ~ParseExpression(raw[i].expression).ok}

\* C37: a raw row whose expression passes the request check of extract and
\* fails the parser never gets a clean row, so every transform without ids
\* selects it (once), counts it as rejected and returns no candidate for it:
\* while such a row exists the selection is not empty.
C37_UnparseableStaysSelected ==
    LET tr == TransformRawData(raw, clean, NoIds, <<>>)
    IN /\ \A i \in Unparseable :
            /\ Existing(clean, raw[i]) = {}
            /\ Cardinality({k \in 1..Len(tr.selected) : tr.selected[k] = i}) = 1
       /\ tr.metrics.rows_rejected = Cardinality(Unparseable)
       /\ \A k \in 1..Len(tr.clean_records) :
            tr.clean_records[k].raw_data_id \notin Unparseable
       /\ last.op = "transform" =>
            /\ Unparseable \subseteq Range(last.out.selected)
            /\ last.out.metrics.rows_rejected = Cardinality(Unparseable)

\* A transform call has selected nothing but a row the parser turns down,
\* which an earlier transform, whose candidate of a later row is loaded, had
\* selected and rejected already.
C37_Witness ==
    /\ last.op = "transform"
    /\ Unparseable # {}
    /\ Range(last.out.selected) = Unparseable
    /\ last.out.metrics.rows_rejected = Cardinality(Unparseable)
    /\ \E c \in clean : \E i \in Unparseable : i < c.raw_data_id


\* One run of run_pipeline on the store st for one day: what it leaves and
\* the candidates its transform phase returned.
PipelineOnce(st, expressions, ingestion_mode) ==
    LET ex == ExtractData(st.raw, st.blobs, st.clock, expressions, RaceDate, RaceDate,
                          ingestion_mode, CHOOSE v \in MainValues : TRUE,
                          CHOOSE tk \in StrictTicks : TRUE)
        tr == RunTransformPhase(ex.raw, st.clean)
        ld == RunLoadPhase(st.clean, tr.clean_records)
    IN [raw |-> ex.raw, blobs |-> ex.blobs, clock |-> ex.clock, clean |-> ld.clean,
        clean_records |-> tr.clean_records, failed |-> ex.raised \/ ld.raised]

\* C38: three runs of the pipeline in mode default or old_codes, for one
\* business day and one list of parseable expressions, take the store (the
\* empty one, and any store such runs have left) to a state in which every
\* expression of the list has one clean row, referencing version 3 of its
\* key, and in which a further run stores no raw row, gets no candidate from
\* transform and leaves the clean table as it is.
C38_DefaultRunsSettle ==
    \A expressions \in RepeatLists, ingestion_mode \in CappedModes :
      LET s0 == [raw |-> raw, blobs |-> blobs, clock |-> clock, clean |-> clean]
          s1 == PipelineOnce(s0, expressions, ingestion_mode)
          s2 == PipelineOnce(s1, expressions, ingestion_mode)
          s3 == PipelineOnce(s2, expressions, ingestion_mode)
          s4 == PipelineOnce(s3, expressions, ingestion_mode)
      IN /\ ~s1.failed /\ ~s2.failed /\ ~s3.failed /\ ~s4.failed
         /\ s4.raw = s3.raw
         /\ s4.clean = s3.clean
         /\ s4.clean_records = <<>>
         /\ \A p \in 1..Len(expressions) :
              /\ Cardinality(RowsFor(s3.raw, expressions[p], RaceDate)) = VersionLimit
              /\ \E c \in s3.clean :
                   /\ c.expression = expressions[p] /\ c.date = RaceDate
                   /\ s3.raw[c.raw_data_id].expression = expressions[p]
                   /\ s3.raw[c.raw_data_id].date = RaceDate
                   /\ s3.raw[c.raw_data_id].version = VersionLimit
                   /\ \A d \in s3.clean : SameKey(c, d) => d = c

\* A pipeline run has ended that stored no raw row and got no candidate from
\* transform, on a store in which the clean rows reference version 3.
C38_Witness ==
    /\ last.op = "pipeline" /\ last.out.success
    /\ last.out.extract_metrics.rows_inserted = 0
    /\ last.out.selected = <<>>
    /\ last.out.load_metrics.records_processed = 0
    /\ clean # {}
    /\ \A c \in clean : raw[c.raw_data_id].version = VersionLimit


\* Raw row i has no clean row for its key, or is newer than the row the
\* clean row of its key references.
SelectedWithoutIds(i) ==
    \A c \in clean :
        (c.expression = raw[i].expression /\ c.date = raw[i].date) => i > c.raw_data_id

\* C39: a transform call given an empty id list selects what a call without
\* ids selects, the stored rows that are newer than the clean row of their
\* key or have none; a call given a non-empty id list selects exactly the
\* stored rows whose id is in the list, each once, reflected by a clean row
\* or not.
C39_IdListSelection ==
    /\ TransformRawData(raw, clean, Ids(<<>>), <<>>) = TransformRawData(raw, clean, NoIds, <<>>)
    /\ last.op = "transform" =>
         LET ids == last.out.raw_data_ids
             sel == last.out.selected
         IN IF ids.list = <<>>
            THEN /\ Range(sel) = {i \in 1..Len(raw) : SelectedWithoutIds(i)}
                 /\ \A a, b \in 1..Len(sel) : a < b => sel[a] < sel[b]
            ELSE /\ Range(sel) = {i \in 1..Len(raw) : \E k \in 1..Len(ids.list) : ids.list[k] = i}
                 /\ \A a, b \in 1..Len(sel) : a # b => sel[a] # sel[b]

\* A transform call given a non-empty id list has selected a row that a
\* clean row already references, in a store where a call given the empty
\* list selects another row.
C39_Witness ==
    /\ last.op = "transform"
    /\ last.out.raw_data_ids.given
    /\ last.out.raw_data_ids.list # <<>>
    /\ \E k \in 1..Len(last.out.selected) :
         \E c \in clean : c.raw_data_id = last.out.selected[k]
    /\ TransformRawData(raw, clean, Ids(<<>>), <<>>).selected # <<>>
    /\ Range(TransformRawData(raw, clean, Ids(<<>>), <<>>).selected)
         # Range(last.out.selected)

=============================================================================
